---- MODULE Spec2Model ----
(***************************************************************************)
(* Model of the auxlink server core: the pairing state machine             *)
(* (packages/api/src/routers/pairing.ts) and the message ledger with its   *)
(* publish/subscribe delivery (packages/api/src/routers/message.ts,        *)
(* packages/api/src/lib/event-emitter.ts), and of the clients' parts that   *)
(* the contract reaches: the terminal's event source, the local message    *)
(* cache, the inbox handlers, the Pairing screen and the encryption module.*)
(*                                                                         *)
(* Every handler is an async function: each `await` on the database is a   *)
(* point where other handlers may run.  A handler is therefore modelled as *)
(* a call record with a position `pc`, and one action per database         *)
(* operation together with the synchronous code that follows it.  Reads of *)
(* the device table's immutable columns (userId, deviceType) are folded    *)
(* into the first action of a call.                                        *)
(***************************************************************************)
EXTENDS Integers, Sequences, FiniteSets, TLC

\* ---------------------------------------------------------------- bounds
MaxTime == 2
MaxSessions == 1
MaxPairCalls == 2
MaxMsgs == 3
MaxSends == 2
MaxUpds == 2
MaxSubs == 2
MaxSentAt == 1
MaxStatusMsgs == 1
MaxRepairSessions == 2
MaxRepairCalls == 3
MaxRepairTime == 1
MaxFrames == 2
MaxClientFrames == 1
MaxCloses == 2
MaxPlainLen == 2

\* ------------------------------------------------------------- constants
\* The session lifetime (5 * 60 * 1000 ms); the model's clock unit is 5 min.
PairingTTL == 1

NULL == "null"

Users == {"u1", "u2"}
Devices == {"m1", "m2", "t1", "x1"}
Keys == {"k1", "k2"}

\* rows of the device table: owner and role are fixed at registration
deviceUserId == [d \in Devices |-> IF d = "x1" THEN "u2" ELSE "u1"]
deviceType == [d \in Devices |-> IF d = "t1" THEN "tui" ELSE "mobile"]

\* the slots of the session table and of the call history; a specification
\* uses a prefix of them
SessionIds == 1..MaxRepairSessions
PairCallIds == 1..MaxRepairCalls
NoSession == [tuiDeviceId |-> NULL, status |-> "none", expiresAt |-> 0, completedAt |-> -1]

MsgIds == 1..MaxMsgs
SendIds == 1..MaxMsgs
UpdIds == 1..MaxUpds
\* the devices whose clients hold an event stream open
SubDevices == {"m1", "t1"}
\* the devices the modelled clients send from and to
Senders == {"m1"}
Recipients == {"t1"}
NoMsg == [senderDeviceId |-> NULL, recipientDeviceId |-> NULL, status |-> "none",
          sentAt |-> -1, deliveredAt |-> -1, readAt |-> -1]
IdleSend == [user |-> NULL, sender |-> NULL, recipient |-> NULL, id |-> 0,
             sentAt |-> -1, pc |-> "idle", result |-> "none"]
IdleUpd == [user |-> NULL, messageId |-> 0, status |-> "none", timestamp |-> -1,
            sender |-> NULL, pc |-> "idle", result |-> "none"]
NoSub == [gen |-> 0, pc |-> "none", lastEventId |-> 0, lastSentAt |-> -1,
          missed |-> <<>>, buf |-> <<>>, yielded |-> <<>>, base |-> {}, heard |-> {}]
IdleCall == [op |-> "idle", user |-> NULL, sid |-> 0, mob |-> NULL, key |-> NULL,
             pc |-> "idle", seen |-> "none", tui |-> NULL, result |-> "none",
             peer |-> NULL]

VARIABLES
  now,             \* the server clock (new Date())
  pairingSession,  \* table pairing_session: session id -> row
  devicePairing,   \* table device_pairing: set of rows
  deviceKey,       \* column device.public_key
  pcalls,          \* the pairing router's calls in flight and finished
  published,       \* every event handed to emitAppEvent so far
  message,         \* table message: message id -> row
  sends,           \* message.send calls in flight and finished
  upds,            \* message.updateStatus calls in flight and finished
  sub,             \* per device, its current message.onMessage subscription
  cursor,          \* per device, the client's lastEventId
  received,        \* per device, the message ids its client was handed
  es,              \* the terminal's CookieEventSource instance
  wire,            \* the response body the server sends, and how much has arrived
  dispatched,      \* the events the instance handed to dispatchEvent, in order
  closes,          \* the number of close() calls so far
  fetches,         \* the number of fetch() calls so far
  localRows,       \* table local_messages of a client's cache, in rowid order
  localLast,       \* the latest call on the cache, and whether it repeats the one before
  inbox,           \* a client's message subscription and its onData handlers
  screen,          \* the terminal's Pairing screen
  crypto,          \* one use of the encryption module: what was sealed, what was opened
  mount,           \* a mounted Inbox or Menu: its effect runs and their subscriptions
  install,         \* the terminal installation: stored device id, runs of initializeDevice
  scanner          \* the phone's pairing scanner

pairVars == <<pairingSession, devicePairing, deviceKey, pcalls>>
msgVars == <<message, sends, upds, sub, cursor, received>>
clientVars == <<es, wire, dispatched, closes, fetches>>
serverVars == <<now, pairVars, published, msgVars>>
cacheVars == <<localRows, localLast>>
uiVars == <<mount, install, scanner>>
appVars == <<cacheVars, inbox, screen, crypto, uiVars>>
vars == <<now, pairingSession, devicePairing, deviceKey, pcalls, published,
          message, sends, upds, sub, cursor, received,
          es, wire, dispatched, closes, fetches, localRows, localLast,
          inbox, screen, crypto, mount, install, scanner>>

\* ------------------------------------------------------------ event bus
\* AppEvent payloads; `by` names the call that published the event
PairingCompletedEvent(tui, mob, key, c) ==
  [type |-> "pairing:completed", deviceId |-> tui, ref |-> mob, status |-> key, by |-> c]

MessageReceivedEvent(d, id, c) ==
  [type |-> "message:received", deviceId |-> d, ref |-> id, status |-> "sent", by |-> c]

MessageStatusUpdatedEvent(d, id, st, c) ==
  [type |-> "message:status_updated", deviceId |-> d, ref |-> id, status |-> st, by |-> c]

\* a publisher that hands an event over only while no listener has events
\* waiting, and drops it otherwise
Emit_DropsWhenBusy(d, e) ==
  /\ published' = published \cup {e}
  /\ sub' = [x \in SubDevices |->
              IF x = d /\ sub[x].pc = "live" /\ \A y \in SubDevices : sub[y].buf = <<>>
                THEN [sub[x] EXCEPT !.buf = Append(@, e), !.heard = @ \cup {e}]
                ELSE sub[x]]

\* emitAppEvent: EventEmitter.emit calls, synchronously, the listeners that
\* are registered on the device's channel at that moment; events.on() queues
\* the event for its async iterator.  With no listener the event is dropped.
Emit(d, e) ==
  /\ published' = published \cup {e}
  /\ sub' = [x \in SubDevices |->
              IF x = d /\ sub[x].pc = "live"
                THEN [sub[x] EXCEPT !.buf = Append(@, e), !.heard = @ \cup {e}]
                ELSE sub[x]]

\* ------------------------------------------------------------- pairing
SessionExists(s) == s \in SessionIds /\ pairingSession[s].status # "none"

\* the call slots are taken in order
FreeCall(c) == /\ pcalls[c].pc = "idle"
               /\ \A b \in PairCallIds : b < c => pcalls[b].pc # "idle"

Finish(c, pcv, res) == pcalls' = [pcalls EXCEPT ![c].pc = pcv, ![c].result = res]

\* pairing.initiate
Initiate(user, tuiDeviceId) ==
  /\ deviceUserId[tuiDeviceId] = user
  /\ deviceType[tuiDeviceId] = "tui"
  /\ \E s \in SessionIds :
       /\ ~SessionExists(s)
       /\ \A b \in SessionIds : b < s => SessionExists(b)
       /\ pairingSession' = [pairingSession EXCEPT ![s] =
            [tuiDeviceId |-> tuiDeviceId, status |-> "pending",
             expiresAt |-> now + PairingTTL, completedAt |-> -1]]
  /\ UNCHANGED <<clientVars, appVars, now, devicePairing, deviceKey, pcalls, published, msgVars>>

\* CompleteChecks without the comparison of the terminal's owner
CompleteChecks_NoOwnerCheck(user, s, mob) ==
  IF deviceUserId[mob] # user THEN "NOT_FOUND"
  ELSE IF deviceType[mob] # "mobile" THEN "BAD_REQUEST"
  ELSE IF ~SessionExists(s) THEN "NOT_FOUND"
  ELSE IF now > pairingSession[s].expiresAt THEN "BAD_REQUEST"
  ELSE IF pairingSession[s].status = "completed" THEN "BAD_REQUEST"
  ELSE "pass"

\* pairing.complete up to the checks that follow the session read
CompleteChecks(user, s, mob) ==
  IF deviceUserId[mob] # user THEN "NOT_FOUND"
  ELSE IF deviceType[mob] # "mobile" THEN "BAD_REQUEST"
  ELSE IF ~SessionExists(s) THEN "NOT_FOUND"
  ELSE IF now > pairingSession[s].expiresAt THEN "BAD_REQUEST"
  ELSE IF pairingSession[s].status = "completed" THEN "BAD_REQUEST"
  ELSE IF deviceUserId[pairingSession[s].tuiDeviceId] # user THEN "FORBIDDEN"
  ELSE "pass"

CompleteBegin(c, user, s, mob, key) ==
  /\ FreeCall(c)
  /\ LET chk == CompleteChecks(user, s, mob)
         row == pairingSession[s]
     IN pcalls' = [pcalls EXCEPT ![c] =
          [op |-> "complete", user |-> user, sid |-> s, mob |-> mob, key |-> key,
           pc |-> IF chk = "pass" THEN "updDevice" ELSE "err",
           seen |-> row.status,
           tui |-> row.tuiDeviceId,
           result |-> IF chk = "pass" THEN "none" ELSE chk, peer |-> NULL]]
  /\ UNCHANGED <<clientVars, appVars, now, pairingSession, devicePairing, deviceKey, published, msgVars>>

CompleteUpdateDevice(c) ==
  /\ pcalls[c].op = "complete" /\ pcalls[c].pc = "updDevice"
  /\ deviceKey' = [deviceKey EXCEPT ![pcalls[c].mob] = pcalls[c].key]
  /\ pcalls' = [pcalls EXCEPT ![c].pc = "insPairing"]
  /\ UNCHANGED <<clientVars, appVars, now, pairingSession, devicePairing, published, msgVars>>

\* the unique index device_pairing_unique rejects a second row for the pair
PairingRowExists(mob, tui) ==
  \E p \in devicePairing : p.mobileDeviceId = mob /\ p.tuiDeviceId = tui

CompleteInsertPairing(c) ==
  /\ pcalls[c].op = "complete" /\ pcalls[c].pc = "insPairing"
  /\ IF PairingRowExists(pcalls[c].mob, pcalls[c].tui)
       THEN /\ Finish(c, "err", "INTERNAL_SERVER_ERROR")
            /\ UNCHANGED devicePairing
       ELSE /\ devicePairing' = devicePairing \cup
                 {[id |-> c, mobileDeviceId |-> pcalls[c].mob,
                   tuiDeviceId |-> pcalls[c].tui, isActive |-> TRUE,
                   pairedAt |-> now]}
            /\ pcalls' = [pcalls EXCEPT ![c].pc = "updSession"]
  /\ UNCHANGED <<clientVars, appVars, now, pairingSession, deviceKey, published, msgVars>>

CompleteUpdateSession(c) ==
  /\ pcalls[c].op = "complete" /\ pcalls[c].pc = "updSession"
  /\ pairingSession' = [pairingSession EXCEPT ![pcalls[c].sid].status = "completed",
                                              ![pcalls[c].sid].completedAt = now]
  /\ pcalls' = [pcalls EXCEPT ![c].pc = "emit"]
  /\ UNCHANGED <<clientVars, appVars, now, devicePairing, deviceKey, published, msgVars>>

CompleteEmit(c) ==
  /\ pcalls[c].op = "complete" /\ pcalls[c].pc = "emit"
  /\ Emit(pcalls[c].tui,
          PairingCompletedEvent(pcalls[c].tui, pcalls[c].mob, pcalls[c].key, c))
  /\ Finish(c, "ok", "success")
  /\ UNCHANGED <<clientVars, appVars, now, pairingSession, devicePairing, deviceKey,
                 message, sends, upds, cursor, received>>

\* pairing.getStatus: the read and the checks, then the lazy expiry write or,
\* for a completed session, the lookup of the terminal's pairing
GetStatusBegin(c, user, s) ==
  /\ FreeCall(c)
  /\ LET row == pairingSession[s]
         res == IF ~SessionExists(s) THEN "NOT_FOUND"
                ELSE IF deviceUserId[row.tuiDeviceId] # user THEN "FORBIDDEN"
                ELSE IF now > row.expiresAt /\ row.status # "completed" THEN "write"
                ELSE row.status
     IN pcalls' = [pcalls EXCEPT ![c] =
          [op |-> "getStatus", user |-> user, sid |-> s, mob |-> NULL, key |-> NULL,
           pc |-> IF res = "write" THEN "writeExpired"
                  ELSE IF res \in {"NOT_FOUND", "FORBIDDEN"} THEN "err"
                  ELSE IF res = "completed" THEN "findPairing" ELSE "ok",
           seen |-> row.status, tui |-> row.tuiDeviceId,
           result |-> IF res = "write" THEN "none" ELSE res, peer |-> NULL]]
  /\ UNCHANGED <<clientVars, appVars, now, pairingSession, devicePairing, deviceKey, published, msgVars>>

GetStatusWriteExpired(c) ==
  /\ pcalls[c].op = "getStatus" /\ pcalls[c].pc = "writeExpired"
  /\ pairingSession' = [pairingSession EXCEPT ![pcalls[c].sid].status = "expired"]
  /\ Finish(c, "ok", "expired")
  /\ UNCHANGED <<clientVars, appVars, now, devicePairing, deviceKey, published, msgVars>>

\* findFirst on device_pairing by the session's terminal, newest pairedAt
\* first; rows with equal pairedAt come in an order the database chooses
LatestPairings(tui) ==
  {p \in devicePairing :
     /\ p.tuiDeviceId = tui
     /\ \A q \in devicePairing : q.tuiDeviceId = tui => q.pairedAt <= p.pairedAt}

GetStatusFindPairing(c) ==
  /\ pcalls[c].op = "getStatus" /\ pcalls[c].pc = "findPairing"
  /\ IF LatestPairings(pcalls[c].tui) = {}
       THEN pcalls' = [pcalls EXCEPT ![c].pc = "ok", ![c].peer = NULL]
       ELSE \E p \in LatestPairings(pcalls[c].tui) :
              pcalls' = [pcalls EXCEPT ![c].pc = "ok", ![c].peer = p.mobileDeviceId]
  /\ UNCHANGED <<clientVars, appVars, now, pairingSession, devicePairing, deviceKey, published, msgVars>>

\* pairing.cancel: the read and the ownership check, then the write
CancelBegin(c, user, s) ==
  /\ FreeCall(c)
  /\ LET row == pairingSession[s]
         res == IF ~SessionExists(s) THEN "NOT_FOUND"
                ELSE IF deviceUserId[row.tuiDeviceId] # user THEN "FORBIDDEN"
                ELSE "write"
     IN pcalls' = [pcalls EXCEPT ![c] =
          [op |-> "cancel", user |-> user, sid |-> s, mob |-> NULL, key |-> NULL,
           pc |-> IF res = "write" THEN "writeExpired" ELSE "err",
           seen |-> row.status, tui |-> row.tuiDeviceId,
           result |-> IF res = "write" THEN "none" ELSE res, peer |-> NULL]]
  /\ UNCHANGED <<clientVars, appVars, now, pairingSession, devicePairing, deviceKey, published, msgVars>>

CancelWrite(c) ==
  /\ pcalls[c].op = "cancel" /\ pcalls[c].pc = "writeExpired"
  /\ pairingSession' = [pairingSession EXCEPT ![pcalls[c].sid].status = "expired"]
  /\ Finish(c, "ok", "success")
  /\ UNCHANGED <<clientVars, appVars, now, devicePairing, deviceKey, published, msgVars>>

\* device.register for a device that exists: the row is looked up by id and
\* owner, NOT_FOUND for another owner's id, and a key that was passed is
\* written to the row; the terminal calls it with its key before it asks for a
\* pairing session
DeviceRegister(user, d, key) ==
  /\ deviceUserId[d] = user
  /\ deviceKey' = IF key # NULL THEN [deviceKey EXCEPT ![d] = key] ELSE deviceKey
  /\ UNCHANGED <<clientVars, appVars, now, pairingSession, devicePairing, pcalls, published, msgVars>>

\* device.unpair: both devices must be the caller's; the pair's row is kept
\* and marked inactive
Unpair(user, mob, tui) ==
  /\ deviceUserId[mob] = user /\ deviceUserId[tui] = user
  /\ PairingRowExists(mob, tui)
  /\ devicePairing' = {IF p.mobileDeviceId = mob /\ p.tuiDeviceId = tui
                         THEN [p EXCEPT !.isActive = FALSE] ELSE p : p \in devicePairing}
  /\ devicePairing' # devicePairing
  /\ UNCHANGED <<clientVars, appVars, now, pairingSession, deviceKey, pcalls, published, msgVars>>

\* device.getPaired for a mobile device: every terminal with an active row
GetPairedOfMobile(mob) ==
  {p.tuiDeviceId : p \in {q \in devicePairing : q.mobileDeviceId = mob /\ q.isActive}}

\* device.getPaired for a terminal: findFirst without an order, so each active
\* row of the terminal is a list the call can return
GetPairedOfTui(tui) ==
  IF \E p \in devicePairing : p.tuiDeviceId = tui /\ p.isActive
    THEN {{p.mobileDeviceId} : p \in {q \in devicePairing : q.tuiDeviceId = tui /\ q.isActive}}
    ELSE {{}}

\* ------------------------------------------------------ message ledger
MsgExists(i) == i \in MsgIds /\ message[i].status # "none"

FreeSend(i) == /\ sends[i].pc = "idle"
               /\ \A b \in SendIds : b < i => sends[b].pc # "idle"

FreeUpd(j) == /\ upds[j].pc = "idle"
              /\ \A b \in UpdIds : b < j => upds[b].pc # "idle"

\* crypto.randomUUID(): an id no row and no call in flight has
FreshMsgId(i) == ~MsgExists(i) /\ \A b \in SendIds : sends[b].id # i

\* message.send: the sender check, then the values of the new row are built
\* (id, sentAt = new Date()) and the insert is issued
SendBegin(i, user, sender, recipient) ==
  /\ FreeSend(i)
  /\ IF deviceUserId[sender] # user
       THEN sends' = [sends EXCEPT ![i] =
              [user |-> user, sender |-> sender, recipient |-> recipient, id |-> 0,
               sentAt |-> -1, pc |-> "err", result |-> "FORBIDDEN"]]
       ELSE \E id \in MsgIds :
              /\ FreshMsgId(id)
              /\ sends' = [sends EXCEPT ![i] =
                   [user |-> user, sender |-> sender, recipient |-> recipient,
                    id |-> id, sentAt |-> now, pc |-> "insert", result |-> "none"]]
  /\ UNCHANGED <<clientVars, appVars, now, pairVars, published, message, upds, sub, cursor, received>>

\* a send that publishes although its insert was rejected
SendInsert_PublishOnFailure(i) ==
  /\ sends[i].pc = "insert"
  /\ \/ /\ message' = [message EXCEPT ![sends[i].id] =
              [senderDeviceId |-> sends[i].sender,
               recipientDeviceId |-> sends[i].recipient,
               status |-> "sent", sentAt |-> sends[i].sentAt,
               deliveredAt |-> -1, readAt |-> -1]]
        /\ sends' = [sends EXCEPT ![i].pc = "emit"]
     \/ /\ sends' = [sends EXCEPT ![i].pc = "emit"]
        /\ UNCHANGED message
  /\ UNCHANGED <<clientVars, appVars, now, pairVars, published, upds, sub, cursor, received>>

\* the insert commits, or the database rejects it and the call throws
SendInsert(i) ==
  /\ sends[i].pc = "insert"
  /\ \/ /\ message' = [message EXCEPT ![sends[i].id] =
              [senderDeviceId |-> sends[i].sender,
               recipientDeviceId |-> sends[i].recipient,
               status |-> "sent", sentAt |-> sends[i].sentAt,
               deliveredAt |-> -1, readAt |-> -1]]
        /\ sends' = [sends EXCEPT ![i].pc = "emit"]
     \/ /\ sends' = [sends EXCEPT ![i].pc = "err",
                                  ![i].result = "INTERNAL_SERVER_ERROR"]
        /\ UNCHANGED message
  /\ UNCHANGED <<clientVars, appVars, now, pairVars, published, upds, sub, cursor, received>>

SendEmit(i) ==
  /\ sends[i].pc = "emit"
  /\ Emit(sends[i].recipient,
          MessageReceivedEvent(sends[i].recipient, sends[i].id, i))
  /\ sends' = [sends EXCEPT ![i].pc = "ok", ![i].result = "sent"]
  /\ UNCHANGED <<clientVars, appVars, now, pairVars, message, upds, cursor, received>>

\* an updateStatus that looks the message up but not whose it is
UpdBegin_NoOwnerCheck(j, user, messageId, status) ==
  /\ FreeUpd(j)
  /\ LET allowed == MsgExists(messageId)
     IN upds' = [upds EXCEPT ![j] =
          [user |-> user, messageId |-> messageId, status |-> status,
           timestamp |-> IF allowed THEN now ELSE -1,
           sender |-> IF allowed THEN message[messageId].senderDeviceId ELSE NULL,
           pc |-> IF allowed THEN "write" ELSE "err",
           result |-> IF allowed THEN "none" ELSE "FORBIDDEN"]]
  /\ UNCHANGED <<clientVars, appVars, now, pairVars, published, message, sends, sub, cursor, received>>

\* message.updateStatus: the read of the message joined with its recipient
\* device and the access check; timestamp = new Date()
UpdBegin(j, user, messageId, status) ==
  /\ FreeUpd(j)
  /\ LET allowed == /\ MsgExists(messageId)
                    /\ message[messageId].recipientDeviceId \in Devices
                    /\ deviceUserId[message[messageId].recipientDeviceId] = user
     IN upds' = [upds EXCEPT ![j] =
          [user |-> user, messageId |-> messageId, status |-> status,
           timestamp |-> IF allowed THEN now ELSE -1,
           sender |-> IF allowed THEN message[messageId].senderDeviceId ELSE NULL,
           pc |-> IF allowed THEN "write" ELSE "err",
           result |-> IF allowed THEN "none" ELSE "FORBIDDEN"]]
  /\ UNCHANGED <<clientVars, appVars, now, pairVars, published, message, sends, sub, cursor, received>>

\* db.update(message).set(updateData): status and the matching timestamp
UpdWrite(j) ==
  /\ upds[j].pc = "write"
  /\ message' = [message EXCEPT ![upds[j].messageId] =
       [@ EXCEPT !.status = upds[j].status,
                 !.deliveredAt = IF upds[j].status = "delivered"
                                   THEN upds[j].timestamp ELSE @,
                 !.readAt = IF upds[j].status = "read"
                              THEN upds[j].timestamp ELSE @]]
  /\ upds' = [upds EXCEPT ![j].pc = "emit"]
  /\ UNCHANGED <<clientVars, appVars, now, pairVars, published, sends, sub, cursor, received>>

UpdEmit(j) ==
  /\ upds[j].pc = "emit"
  /\ Emit(upds[j].sender,
          MessageStatusUpdatedEvent(upds[j].sender, upds[j].messageId, upds[j].status, j))
  /\ upds' = [upds EXCEPT ![j].pc = "ok", ![j].result = upds[j].status]
  /\ UNCHANGED <<clientVars, appVars, now, pairVars, message, sends, cursor, received>>

\* ------------------------------------------------------- subscriptions
\* a backlog query without the recipient condition
MissedSet_AnyRecipient(d, lastSentAt) ==
  {i \in MsgIds : /\ MsgExists(i)
                  /\ message[i].sentAt > lastSentAt}

\* the rows the backlog query selects
MissedSet(d, lastSentAt) ==
  {i \in MsgIds : /\ MsgExists(i)
                  /\ message[i].recipientDeviceId = d
                  /\ message[i].sentAt > lastSentAt}

\* ORDER BY sent_at: every order of the rows that is ascending in sentAt;
\* the order of rows with equal sentAt is not determined by the query
OrderedBySentAt(S) ==
  {q \in [1..Cardinality(S) -> S] :
     /\ \A a, b \in 1..Cardinality(S) : a # b => q[a] # q[b]
     /\ \A a, b \in 1..Cardinality(S) :
          a < b => message[q[a]].sentAt <= message[q[b]].sentAt}

\* the client is handed a tracked MessageReceived frame: it records the
\* frame's id as its lastEventId
Handed(d, id) ==
  /\ received' = [received EXCEPT ![d] = @ \cup {id}]
  /\ cursor' = [cursor EXCEPT ![d] = id]

\* message.onMessage: the device check and the read of the cursor's row
\* (sentAt of a row never changes); the client sends its lastEventId
SubBegin(d, user) ==
  /\ sub[d].pc \in {"none", "closed", "err"}
  /\ sub[d].gen < MaxSubs
  /\ LET last == cursor[d]
         pcv == IF deviceUserId[d] # user THEN "err"
                ELSE IF last # 0 /\ MsgExists(last) THEN "query"
                ELSE "replay"
     IN sub' = [sub EXCEPT ![d] =
          [gen |-> sub[d].gen + 1, pc |-> pcv, lastEventId |-> last,
           lastSentAt |-> IF pcv = "query" THEN message[last].sentAt ELSE -1,
           missed |-> <<>>, buf |-> <<>>, yielded |-> <<>>, base |-> {}, heard |-> {}]]
  /\ UNCHANGED <<clientVars, appVars, now, pairVars, published, message, sends, upds, cursor, received>>

\* the backlog query; `base` remembers the rows present when it ran
SubQueryBacklog(d) ==
  /\ sub[d].pc = "query"
  /\ \E q \in OrderedBySentAt(MissedSet(d, sub[d].lastSentAt)) :
       sub' = [sub EXCEPT ![d].missed = q,
                          ![d].base = {i \in MsgIds : MsgExists(i)},
                          ![d].pc = "replay"]
  /\ UNCHANGED <<clientVars, appVars, now, pairVars, published, message, sends, upds, cursor, received>>

\* yield tracked(msg.id, ...) for the next missed message
SubYield(d) ==
  /\ sub[d].pc = "replay" /\ sub[d].missed # <<>>
  /\ sub' = [sub EXCEPT ![d].missed = Tail(@),
                        ![d].yielded = Append(@, [kind |-> "replay", id |-> Head(sub[d].missed),
                                                  type |-> "message:received", status |-> "sent"])]
  /\ Handed(d, Head(sub[d].missed))
  /\ UNCHANGED <<clientVars, appVars, now, pairVars, published, message, sends, upds>>

\* the replay loop is over: on(appEventEmitter, channel) registers the listener
SubAttach(d) ==
  /\ sub[d].pc = "replay" /\ sub[d].missed = <<>>
  /\ sub' = [sub EXCEPT ![d].pc = "live"]
  /\ UNCHANGED <<clientVars, appVars, now, pairVars, published, message, sends, upds, cursor, received>>

\* the live loop takes the next queued event and yields it if it is a
\* MESSAGE_RECEIVED; any other event is skipped
SubConsume(d) ==
  /\ sub[d].pc = "live" /\ sub[d].buf # <<>>
  /\ LET e == Head(sub[d].buf)
     IN IF e.type = "message:received"
          THEN /\ sub' = [sub EXCEPT ![d].buf = Tail(@),
                            ![d].yielded = Append(@, [kind |-> "live", id |-> e.ref,
                                                      type |-> e.type, status |-> e.status])]
               /\ Handed(d, e.ref)
          ELSE /\ sub' = [sub EXCEPT ![d].buf = Tail(@)]
               /\ UNCHANGED <<cursor, received>>
  /\ UNCHANGED <<clientVars, appVars, now, pairVars, published, message, sends, upds>>

\* the client disconnects: opts.signal aborts the generator
SubClose(d) ==
  /\ sub[d].pc \in {"query", "replay", "live"}
  /\ sub' = [sub EXCEPT ![d].pc = "closed", ![d].buf = <<>>, ![d].missed = <<>>]
  /\ UNCHANGED <<clientVars, appVars, now, pairVars, published, message, sends, upds, cursor, received>>

\* message.getPending: the ids of the rows the poll returns
GetPending(d, since) ==
  {i \in MsgIds : /\ MsgExists(i)
                  /\ message[i].recipientDeviceId = d
                  /\ message[i].status \in {"pending", "sent"}
                  /\ (since # 0 => i > since)}

\* the ids message.onMessage replays for lastEventId = x
Replayed(d, x) ==
  IF x # 0 /\ MsgExists(x) THEN MissedSet(d, message[x].sentAt) ELSE {}

\* ------------------------------------------------ terminal event stream
\* CookieEventSource (apps/tui/src/utils/trpc.ts).  A response body is a
\* sequence of symbols: "E", "D" and "I" stand for the line prefixes
\* "event: ", "data: " and "id: ", NL for the newline, any other symbol is
\* payload.  A chunk is any non-empty run of symbols, so a chunk boundary can
\* fall inside a line as well as between the lines of a frame.
NL == "N"

DefaultType == <<"message">>

\* frames a server sends: all three fields, data alone, an id without data
FrameSet ==
  { <<"E", "a", NL, "D", "a", NL, "I", "a", NL, NL>>,
    <<"D", "b", NL, NL>>,
    <<"I", "b", NL, NL>> }

\* the lengths of a chunk reader.read() can return (a frame has at most 10
\* symbols)
ChunkSizes == 1..(10 * MaxFrames)

RECURSIVE StreamsOf(_)
\* the bodies of at most n frames
StreamsOf(n) ==
  IF n = 0 THEN {<<>>}
  ELSE LET S == StreamsOf(n - 1) IN S \cup {s \o f : s \in S, f \in FrameSet}

NoSource == [pc |-> "none", readyState |-> 0, abortController |-> NULL,
             reader |-> FALSE, buffer |-> <<>>, cookie |-> NULL, failure |-> "none",
             token |-> NULL]

OpenEvent ==
  [kind |-> "open", type |-> <<>>, data |-> <<>>, lastEventId |-> <<>>, cause |-> "none"]

\* new Event("error"); `cause` is what reached the place that dispatches it
ErrorEvent(cause) ==
  [kind |-> "error", type |-> <<>>, data |-> <<>>, lastEventId |-> <<>>, cause |-> cause]

MessageEvent(eventType, eventData, eventId) ==
  [kind |-> "message", type |-> eventType, data |-> eventData,
   lastEventId |-> eventId, cause |-> "none"]

RECURSIVE SplitLines(_, _)
\* buffer.split("\n"); cur is the piece being collected
SplitLines(text, cur) ==
  IF text = <<>> THEN <<cur>>
  ELSE IF Head(text) = NL THEN <<cur>> \o SplitLines(Tail(text), <<>>)
  ELSE SplitLines(Tail(text), Append(cur, Head(text)))

\* eventType, eventData and eventId as the read loop declares them, once per
\* chunk, and the events dispatched so far in this chunk
NewAccumulator ==
  [eventType |-> DefaultType, eventData |-> <<>>, eventId |-> <<>>, out |-> <<>>]

\* the body of the for loop over the lines of a chunk
ProcessLine(acc, line) ==
  IF line # <<>> /\ Head(line) = "E" THEN [acc EXCEPT !.eventType = Tail(line)]
  ELSE IF line # <<>> /\ Head(line) = "D" THEN [acc EXCEPT !.eventData = Tail(line)]
  ELSE IF line # <<>> /\ Head(line) = "I" THEN [acc EXCEPT !.eventId = Tail(line)]
  ELSE IF line = <<>> /\ acc.eventData # <<>>
    THEN [eventType |-> DefaultType, eventData |-> <<>>, eventId |-> <<>>,
          out |-> Append(acc.out,
                         MessageEvent(acc.eventType, acc.eventData, acc.eventId))]
  ELSE acc

RECURSIVE ProcessLines(_, _)
ProcessLines(acc, lines) ==
  IF lines = <<>> THEN acc
  ELSE ProcessLines(ProcessLine(acc, Head(lines)), Tail(lines))

\* one pass of the read loop after reader.read() returned `chunk`: the last
\* piece stays in the buffer, the complete lines are processed
ProcessChunk(buffer, chunk) ==
  LET pieces == SplitLines(buffer \o chunk, <<>>)
  IN [buffer |-> pieces[Len(pieces)],
      out |-> ProcessLines(NewAccumulator, SubSeq(pieces, 1, Len(pieces) - 1)).out]

Aborted == es.abortController = "aborted"

\* new CookieEventSource(url): the token lookup is started, nothing else
Construct ==
  /\ es.pc = "none"
  /\ es' = [NoSource EXCEPT !.pc = "token"]
  /\ UNCHANGED <<serverVars, appVars, wire, dispatched, closes, fetches>>

\* the same with the Cookie header left empty whatever the lookup returned
TokenSettle_NoCookie(outcome) ==
  /\ es.pc = "token"
  /\ es' = [es EXCEPT !.pc = "fetch", !.readyState = 0, !.abortController = "live",
                      !.token = outcome, !.cookie = ""]
  /\ fetches' = fetches + 1
  /\ UNCHANGED <<serverVars, appVars, wire, dispatched, closes>>

\* storage.getItem settles (a token, no token, or a rejection): in each case
\* readyState is set to CONNECTING, a controller is made and fetch is called;
\* `token` keeps what the lookup returned, `cookie` the header fetch is given
TokenSettle(outcome) ==
  /\ es.pc = "token"
  /\ es' = [es EXCEPT !.pc = "fetch", !.readyState = 0, !.abortController = "live",
                      !.token = outcome,
                      !.cookie = IF outcome = "token" THEN "session_token" ELSE ""]
  /\ fetches' = fetches + 1
  /\ UNCHANGED <<serverVars, appVars, wire, dispatched, closes>>

\* fetch resolves with a response whose body will be `stream`
FetchRespond(ok, stream) ==
  /\ es.pc = "fetch" /\ ~Aborted
  /\ IF ok
       THEN /\ es' = [es EXCEPT !.pc = "read", !.readyState = 1, !.reader = TRUE]
            /\ dispatched' = Append(dispatched, OpenEvent)
            /\ wire' = [full |-> stream, sent |-> 0]
       ELSE /\ es' = [es EXCEPT !.pc = "errBody", !.failure = "http"]
            /\ UNCHANGED <<dispatched, wire>>
  /\ UNCHANGED <<serverVars, appVars, closes, fetches>>

\* fetch rejects, with AbortError after an abort and with a network error
\* otherwise; the catch block runs
FetchReject ==
  /\ es.pc = "fetch"
  /\ es' = [es EXCEPT !.pc = "done", !.readyState = 2,
                      !.failure = IF Aborted THEN @ ELSE "fetch"]
  /\ dispatched' = Append(dispatched, ErrorEvent(IF Aborted THEN "abort" ELSE "network"))
  /\ UNCHANGED <<serverVars, appVars, wire, closes, fetches>>

\* response.text() of a response that is not OK settles
ErrBodySettle(outcome) ==
  /\ es.pc = "errBody"
  /\ Aborted => outcome = "rejected"
  /\ es' = [es EXCEPT !.pc = "done", !.readyState = 2]
  /\ dispatched' = Append(dispatched,
                          ErrorEvent(IF Aborted THEN "abort"
                                     ELSE IF outcome = "rejected" THEN "network"
                                     ELSE "http"))
  /\ UNCHANGED <<serverVars, appVars, wire, closes, fetches>>

\* reader.read() resolves with the next n symbols of the body
ReadChunk(n) ==
  /\ es.pc = "read" /\ ~Aborted
  /\ n \in 1..(Len(wire.full) - wire.sent)
  /\ LET r == ProcessChunk(es.buffer, SubSeq(wire.full, wire.sent + 1, wire.sent + n))
     IN /\ es' = [es EXCEPT !.buffer = r.buffer,
                            !.pc = IF es.readyState = 2 THEN "done" ELSE "read"]
        /\ dispatched' = dispatched \o r.out
  /\ wire' = [wire EXCEPT !.sent = @ + n]
  /\ UNCHANGED <<serverVars, appVars, closes, fetches>>

\* reader.read() resolves with done after the whole body arrived
ReadDone ==
  /\ es.pc = "read" /\ ~Aborted
  /\ wire.sent = Len(wire.full)
  /\ es' = [es EXCEPT !.pc = "done", !.readyState = 2]
  /\ UNCHANGED <<serverVars, appVars, wire, dispatched, closes, fetches>>

\* ReadReject that, on the first network error, dispatches the error event and
\* goes on reading
ReadReject_KeepsReading ==
  /\ es.pc = "read"
  /\ es' = [es EXCEPT !.pc = IF Aborted \/ es.failure # "none" THEN "done" ELSE "read",
                      !.readyState = IF Aborted \/ es.failure # "none" THEN 2 ELSE @,
                      !.failure = IF Aborted THEN @ ELSE "read"]
  /\ dispatched' = Append(dispatched, ErrorEvent(IF Aborted THEN "abort" ELSE "network"))
  /\ UNCHANGED <<serverVars, appVars, wire, closes, fetches>>

\* reader.read() rejects, with AbortError after an abort and with a network
\* error otherwise; the catch block runs
ReadReject ==
  /\ es.pc = "read"
  /\ es' = [es EXCEPT !.pc = "done", !.readyState = 2,
                      !.failure = IF Aborted THEN @ ELSE "read"]
  /\ dispatched' = Append(dispatched, ErrorEvent(IF Aborted THEN "abort" ELSE "network"))
  /\ UNCHANGED <<serverVars, appVars, wire, closes, fetches>>

\* close(): CLOSED, abort the controller if there is one, drop the reader
Close ==
  /\ es.pc # "none"
  /\ closes < MaxCloses
  /\ es' = [es EXCEPT !.readyState = 2,
                      !.abortController = IF @ = NULL THEN NULL ELSE "aborted",
                      !.reader = FALSE]
  /\ closes' = closes + 1
  /\ UNCHANGED <<serverVars, appVars, wire, dispatched, fetches>>

\* ----------------------------------------------------- local cache
\* LocalDatabase (apps/tui/src/lib/local-db.ts, apps/native/lib/local-db.ts):
\* the table local_messages with primary key id.  The rows are kept in rowid
\* order; INSERT OR REPLACE deletes the row with the same id and inserts the
\* new one with a fresh, largest rowid.
LocalMsgIds == {"a", "b"}
LocalConversations == <<"m1", "m2">>
LocalContents == {"x", "y"}
LocalStatuses == {"delivered", "read"}
LocalTimes == {0, 1}
LocalMessages == [id : LocalMsgIds, conversationId : {"m1", "m2"},
                  content : LocalContents, isSent : BOOLEAN,
                  status : LocalStatuses, timestamp : LocalTimes]
NoLocalMessage == [id |-> NULL, conversationId |-> NULL, content |-> NULL,
                   isSent |-> FALSE, status |-> NULL, timestamp |-> -1]
NoLocalCall == [op |-> "none", msg |-> NoLocalMessage, id |-> NULL, status |-> NULL,
                conversationId |-> NULL, hit |-> FALSE, times |-> 0, result |-> "none"]
\* the two ways the engine may break a tie between equal timestamps
TieRules == {"lowRowid", "highRowid"}

HasRow(rows, id) == \E i \in 1..Len(rows) : rows[i].id = id

\* INSERT without OR REPLACE and without the primary key: the old row stays
SaveMessage_Append(rows, m) == Append(rows, m)

\* saveMessage: INSERT OR REPLACE INTO local_messages
SaveMessage(rows, m) == Append(SelectSeq(rows, LAMBDA r : r.id # m.id), m)

\* an update that creates the row it does not find
UpdateMessageStatus_Upsert(rows, id, st) ==
  IF HasRow(rows, id)
    THEN [i \in 1..Len(rows) |-> IF rows[i].id = id THEN [rows[i] EXCEPT !.status = st]
                                                   ELSE rows[i]]
    ELSE Append(rows, [id |-> id, conversationId |-> "m1", content |-> "x",
                       isSent |-> FALSE, status |-> st, timestamp |-> 0])

\* updateMessageStatus: UPDATE local_messages SET status = ? WHERE id = ?
UpdateMessageStatus(rows, id, st) ==
  [i \in 1..Len(rows) |-> IF rows[i].id = id THEN [rows[i] EXCEPT !.status = st]
                                            ELSE rows[i]]

\* markConversationAsRead: UPDATE ... SET status = 'read'
\*   WHERE conversation_id = ? AND is_sent = 0 AND status != 'read'
MarkConversationAsRead(rows, conv) ==
  [i \in 1..Len(rows) |->
     IF rows[i].conversationId = conv /\ ~rows[i].isSent /\ rows[i].status # "read"
       THEN [rows[i] EXCEPT !.status = "read"] ELSE rows[i]]

RowsOf(rows, conv) == {i \in 1..Len(rows) : rows[i].conversationId = conv}

\* MAX(timestamp) of a conversation that has rows
LastTimestamp(rows, conv) ==
  CHOOSE t \in {rows[i].timestamp : i \in RowsOf(rows, conv)} :
    \A i \in RowsOf(rows, conv) : rows[i].timestamp <= t

\* SELECT content ... ORDER BY timestamp DESC LIMIT 1: among the rows with the
\* largest timestamp the engine takes the one its scan meets first
LastMessage(rows, conv, tie) ==
  LET top == {i \in RowsOf(rows, conv) : rows[i].timestamp = LastTimestamp(rows, conv)}
      pick == IF tie = "lowRowid" THEN CHOOSE i \in top : \A j \in top : i <= j
                                  ELSE CHOOSE i \in top : \A j \in top : i >= j
  IN rows[pick].content

\* a summary that counts the sent rows as unread too
ConversationSummary_CountsSent(rows, conv, tie) ==
  [conversationId |-> conv,
   lastMessage |-> LastMessage(rows, conv, tie),
   lastTimestamp |-> LastTimestamp(rows, conv),
   unreadCount |-> Cardinality({i \in RowsOf(rows, conv) : rows[i].status # "read"})]

\* one row of getConversations()
ConversationSummary(rows, conv, tie) ==
  [conversationId |-> conv,
   lastMessage |-> LastMessage(rows, conv, tie),
   lastTimestamp |-> LastTimestamp(rows, conv),
   unreadCount |-> Cardinality({i \in RowsOf(rows, conv) :
                                  ~rows[i].isSent /\ rows[i].status # "read"})]

RECURSIVE ByTimestampDesc(_, _)
\* the conversations with rows, latest first; GROUP BY leaves equal timestamps
\* in conversation_id order
ByTimestampDesc(rows, times) ==
  IF times = {} THEN <<>>
  ELSE LET t == CHOOSE x \in times : \A y \in times : y <= x
       IN SelectSeq(LocalConversations,
                    LAMBDA c : RowsOf(rows, c) # {} /\ LastTimestamp(rows, c) = t)
          \o ByTimestampDesc(rows, times \ {t})

\* getConversations(): SELECT ... GROUP BY conversation_id ORDER BY last_timestamp DESC
GetConversations(rows, tie) ==
  LET order == ByTimestampDesc(rows, LocalTimes)
  IN [n \in 1..Len(order) |-> ConversationSummary(rows, order[n], tie)]

\* the number of times in a row the cache was given the same call
Times(same) == IF same /\ localLast.times >= 1 THEN 2 ELSE 1

\* a client calls localDb.saveMessage(m)
LocalSave(m) ==
  /\ localRows' = SaveMessage(localRows, m)
  /\ localLast' = [NoLocalCall EXCEPT !.op = "saveMessage", !.msg = m,
                     !.hit = HasRow(localRows, m.id),
                     !.times = Times(localLast.op = "saveMessage" /\ localLast.msg = m),
                     !.result = "ok"]
  /\ UNCHANGED <<serverVars, clientVars, inbox, screen, crypto, uiVars>>

\* a client calls localDb.updateMessageStatus(id, st); the statement runs
\* whether or not a row matches, and nothing in the method throws for a
\* statement that changes no row
LocalUpdateStatus(id, st) ==
  /\ localRows' = UpdateMessageStatus(localRows, id, st)
  /\ localLast' = [NoLocalCall EXCEPT !.op = "updateMessageStatus", !.id = id,
                     !.status = st, !.hit = HasRow(localRows, id),
                     !.times = Times(/\ localLast.op = "updateMessageStatus"
                                     /\ localLast.id = id /\ localLast.status = st),
                     !.result = "ok"]
  /\ UNCHANGED <<serverVars, clientVars, inbox, screen, crypto, uiVars>>

\* a client calls localDb.markConversationAsRead(conv)
LocalMarkRead(conv) ==
  /\ localRows' = MarkConversationAsRead(localRows, conv)
  /\ localLast' = [NoLocalCall EXCEPT !.op = "markConversationAsRead",
                     !.conversationId = conv, !.hit = RowsOf(localRows, conv) # {},
                     !.times = Times(/\ localLast.op = "markConversationAsRead"
                                     /\ localLast.conversationId = conv),
                     !.result = "ok"]
  /\ UNCHANGED <<serverVars, clientVars, inbox, screen, crypto, uiVars>>

\* ------------------------------------------------------------- inbox
\* The clients' message subscription (apps/tui/src/components/inbox.tsx,
\* apps/native/app/(drawer)/index.tsx): one onData handler per frame; the
\* handlers of several frames interleave at their awaits.
InboxClients == {"tui", "native"}
\* the frames the server yields, in this order
InboxFrames == <<"a", "b">>
NoHandler == [pc |-> "none", good |-> FALSE]
NoInbox == [client |-> NULL, open |-> FALSE,
            handlers |-> [f \in LocalMsgIds |-> NoHandler],
            lastMessageId |-> NULL, acked |-> {}]

\* what decryptReceivedMessage stores for frame f
ReceivedMessage(f) ==
  [id |-> f, conversationId |-> "m1", content |-> "x", isSent |-> FALSE,
   status |-> "delivered", timestamp |-> 0]

\* trpc.message.onMessage.subscribe(...)
InboxSubscribe(client) ==
  /\ inbox.client = NULL
  /\ inbox' = [inbox EXCEPT !.client = client, !.open = TRUE]
  /\ UNCHANGED <<serverVars, clientVars, cacheVars, screen, crypto, uiVars>>

\* onData is called with the next message:received frame; `good` says whether
\* its content can be decrypted with the device's key.  The terminal's handler
\* first stores the id, the phone's first decrypts.
InboxOnData(n, good) ==
  /\ inbox.open
  /\ n \in 1..Len(InboxFrames)
  /\ inbox.handlers[InboxFrames[n]].pc = "none"
  /\ \A k \in 1..(n - 1) : inbox.handlers[InboxFrames[k]].pc # "none"
  /\ inbox' = [inbox EXCEPT !.handlers[InboxFrames[n]] =
                 [pc |-> IF inbox.client = "tui" THEN "setItem" ELSE "decrypt",
                  good |-> good]]
  /\ UNCHANGED <<serverVars, clientVars, cacheVars, screen, crypto, uiVars>>

\* storage.setItem / SecureStore.setItemAsync of lastMessageId
InboxSetLastMessageId(f) ==
  /\ inbox.open
  /\ inbox.handlers[f].pc = "setItem"
  /\ inbox' = [inbox EXCEPT !.lastMessageId = f,
                 !.handlers[f].pc = IF inbox.client = "tui" THEN "decrypt" ELSE "ack"]
  /\ UNCHANGED <<serverVars, clientVars, cacheVars, screen, crypto, uiVars>>

\* decryptReceivedMessage settles: it stores the message, or it throws.  The
\* phone's handler has a .catch; the terminal's async onData has no try, so
\* its promise rejects.
InboxDecrypt(f) ==
  /\ inbox.open
  /\ inbox.handlers[f].pc = "decrypt"
  /\ IF inbox.handlers[f].good
       THEN /\ localRows' = SaveMessage(localRows, ReceivedMessage(f))
            /\ localLast' = [NoLocalCall EXCEPT !.op = "saveMessage",
                               !.msg = ReceivedMessage(f), !.hit = HasRow(localRows, f),
                               !.times = Times(/\ localLast.op = "saveMessage"
                                               /\ localLast.msg = ReceivedMessage(f)),
                               !.result = "ok"]
            /\ inbox' = [inbox EXCEPT !.handlers[f].pc =
                           IF inbox.client = "tui" THEN "ack" ELSE "setItem"]
       ELSE /\ inbox' = [inbox EXCEPT !.handlers[f].pc =
                           IF inbox.client = "tui" THEN "rejected" ELSE "caught"]
            /\ UNCHANGED cacheVars
  /\ UNCHANGED <<serverVars, clientVars, screen, crypto, uiVars>>

\* message.updateStatus.mutate({messageId, status: "delivered"}) is sent
InboxAck(f) ==
  /\ inbox.open
  /\ inbox.handlers[f].pc = "ack"
  /\ inbox' = [inbox EXCEPT !.acked = @ \cup {f}, !.handlers[f].pc = "done"]
  /\ UNCHANGED <<serverVars, clientVars, cacheVars, screen, crypto, uiVars>>

\* the rejected promise of the terminal's onData has no handler anywhere in
\* the program: the runtime reports it and either goes on or ends the process,
\* and with the process the subscription
InboxUnhandledRejection(f, outcome) ==
  /\ inbox.open
  /\ inbox.handlers[f].pc = "rejected"
  /\ inbox' = [inbox EXCEPT !.handlers[f].pc = "unhandled",
                 !.open = (outcome = "reported")]
  /\ UNCHANGED <<serverVars, clientVars, cacheVars, screen, crypto, uiVars>>

\* ---------------------------------------------------------- encryption
\* packages/crypto (encryptAES, decryptAES): AES-256-GCM over the UTF-8 bytes
\* of the plaintext, output base64(iv || ciphertext || tag).
\*
\* A plaintext is a JavaScript string, a sequence of UTF-16 code units: "a" is
\* a character of the basic plane, "BOM" is U+FEFF, "HS" and "LS" are a high
\* and a low surrogate, "FFFD" is the replacement character.  Bytes are the
\* numbers below ByteBase; the UTF-8 forms are a = 0, U+FEFF = 1 2,
\* U+FFFD = 1 3, a surrogate pair = 4 5.
CodeUnits == {"a", "BOM", "HS", "LS"}
ByteBase == 6
Nonces == {0, 1}
KeyNumber == [k \in Keys |-> IF k = "k1" THEN 1 ELSE 2]

RECURSIVE SeqsUpTo(_, _)
\* the sequences over S of length at most n
SeqsUpTo(S, n) ==
  IF n = 0 THEN {<<>>}
  ELSE LET shorter == SeqsUpTo(S, n - 1)
       IN shorter \cup {Append(q, x) : q \in shorter, x \in S}

Plaintexts == SeqsUpTo(CodeUnits, MaxPlainLen)

RECURSIVE EncodeUtf8(_)
\* new TextEncoder().encode(s): a surrogate pair is one character, a
\* surrogate without its partner is encoded as U+FFFD
EncodeUtf8(units) ==
  IF units = <<>> THEN <<>>
  ELSE LET u == Head(units)
       IN IF u = "a" THEN <<0>> \o EncodeUtf8(Tail(units))
          ELSE IF u = "BOM" THEN <<1, 2>> \o EncodeUtf8(Tail(units))
          ELSE IF u = "HS" /\ Len(units) >= 2 /\ units[2] = "LS"
            THEN <<4, 5>> \o EncodeUtf8(Tail(Tail(units)))
          ELSE <<1, 3>> \o EncodeUtf8(Tail(units))

RECURSIVE DecodeBytes(_)
\* the UTF-8 decoder: an ill-formed sequence yields U+FFFD
DecodeBytes(bytes) ==
  IF bytes = <<>> THEN <<>>
  ELSE LET b == Head(bytes)
           two == Len(bytes) >= 2
       IN IF b = 0 THEN <<"a">> \o DecodeBytes(Tail(bytes))
          ELSE IF b = 1 /\ two /\ bytes[2] = 2
            THEN <<"BOM">> \o DecodeBytes(Tail(Tail(bytes)))
          ELSE IF b = 1 /\ two /\ bytes[2] = 3
            THEN <<"FFFD">> \o DecodeBytes(Tail(Tail(bytes)))
          ELSE IF b = 4 /\ two /\ bytes[2] = 5
            THEN <<"HS", "LS">> \o DecodeBytes(Tail(Tail(bytes)))
          ELSE <<"FFFD">> \o DecodeBytes(Tail(bytes))

\* new TextDecoder().decode(bytes): ignoreBOM is false, so a leading U+FEFF
\* is taken as a byte order mark and left out of the result
DecodeUtf8(bytes) ==
  LET units == DecodeBytes(bytes)
  IN IF units # <<>> /\ Head(units) = "BOM" THEN Tail(units) ELSE units

\* the counter-mode key stream of AES under key k and nonce iv, at position i
KeyStream(k, iv, i) == (KeyNumber[k] + iv + i) % ByteBase

Mask(k, iv, bytes) ==
  [i \in 1..Len(bytes) |-> (bytes[i] + KeyStream(k, iv, i)) % ByteBase]

Unmask(k, iv, bytes) ==
  [i \in 1..Len(bytes) |-> (bytes[i] + ByteBase - KeyStream(k, iv, i)) % ByteBase]

\* the GHASH tag: it is determined by key, nonce and ciphertext, and two
\* different triples do not share a tag
GHash(k, iv, data) == <<k, iv, data>>

\* what is left of a tag when the input ends before 12 + 16 bytes, and the
\* last 16 bytes of an input that was cut somewhere else
NoTag == <<NULL, -1, <<>>>>
JunkTag == <<NULL, -2, <<>>>>
NoBox == [iv |-> -1, data |-> <<>>, tag |-> NoTag]

\* encryptAES with the nonce randomBytes(12) returned: the bytes behind the
\* base64 text, as nonce, ciphertext and tag
EncryptAES(plaintext, k, iv) ==
  LET data == Mask(k, iv, EncodeUtf8(plaintext))
  IN [iv |-> iv, data |-> data, tag |-> GHash(k, iv, data)]

Failure(why) == [ok |-> FALSE, value |-> <<>>, error |-> why]
Success(units) == [ok |-> TRUE, value |-> units, error |-> "none"]
DecryptionFailures == {"aes/gcm: invalid nonce length", "aes/gcm: invalid ciphertext length",
                       "aes/gcm: invalid ghash tag"}

\* a decryption that does not verify the tag
DecryptAES_NoTagCheck(box, k) ==
  IF box.iv = -1 THEN Failure("aes/gcm: invalid nonce length")
  ELSE IF box.tag = NoTag THEN Failure("aes/gcm: invalid ciphertext length")
  ELSE Success(DecodeUtf8(Unmask(k, box.iv, box.data)))

\* decryptAES: gcm(key, iv).decrypt throws when the nonce or the tag is
\* missing and when the tag does not verify; the bytes it returns are decoded
DecryptAES(box, k) ==
  IF box.iv = -1 THEN Failure("aes/gcm: invalid nonce length")
  ELSE IF box.tag = NoTag THEN Failure("aes/gcm: invalid ciphertext length")
  ELSE IF box.tag # GHash(k, box.iv, box.data) THEN Failure("aes/gcm: invalid ghash tag")
  ELSE Success(DecodeUtf8(Unmask(k, box.iv, box.data)))

NoCrypto == [pc |-> "idle", plaintext |-> <<>>, key |-> NULL, box |-> NoBox,
             altered |-> "no", usedKey |-> NULL, result |-> Failure("none")]

\* encrypt(plaintext, k)
CryptoEncrypt(plaintext, k, iv) ==
  /\ crypto.pc = "idle"
  /\ crypto' = [crypto EXCEPT !.pc = "sealed", !.plaintext = plaintext, !.key = k,
                  !.box = EncryptAES(plaintext, k, iv)]
  /\ UNCHANGED <<serverVars, clientVars, cacheVars, inbox, screen, uiVars>>

\* on its way the ciphertext has bits of its nonce changed
CryptoAlterNonce(iv) ==
  /\ crypto.pc = "sealed" /\ crypto.altered = "no"
  /\ iv # crypto.box.iv
  /\ crypto' = [crypto EXCEPT !.box.iv = iv, !.altered = "nonce"]
  /\ UNCHANGED <<serverVars, clientVars, cacheVars, inbox, screen, uiVars>>

\* ... or bits of one byte of the encrypted text
CryptoAlterData(i, b) ==
  /\ crypto.pc = "sealed" /\ crypto.altered = "no"
  /\ i \in 1..Len(crypto.box.data)
  /\ b # crypto.box.data[i]
  /\ crypto' = [crypto EXCEPT !.box.data[i] = b, !.altered = "data"]
  /\ UNCHANGED <<serverVars, clientVars, cacheVars, inbox, screen, uiVars>>

\* ... or bits of the tag: it becomes the tag of another key or nonce, or junk
CryptoAlterTag(t) ==
  /\ crypto.pc = "sealed" /\ crypto.altered = "no"
  /\ t # crypto.box.tag
  /\ crypto' = [crypto EXCEPT !.box.tag = t, !.altered = "tag"]
  /\ UNCHANGED <<serverVars, clientVars, cacheVars, inbox, screen, uiVars>>

\* ... or it is cut: before the end of the nonce, before 16 bytes of sealed
\* text, or later
CryptoTruncate(how) ==
  /\ crypto.pc = "sealed" /\ crypto.altered = "no"
  /\ crypto' = [crypto EXCEPT
       !.box = IF how = "nonce" THEN NoBox
               ELSE IF how = "tag" THEN [iv |-> crypto.box.iv, data |-> <<>>, tag |-> NoTag]
               ELSE [iv |-> crypto.box.iv, data |-> <<>>, tag |-> JunkTag],
       !.altered = "cut"]
  /\ UNCHANGED <<serverVars, clientVars, cacheVars, inbox, screen, uiVars>>

\* decrypt(ciphertext, k)
CryptoDecrypt(k) ==
  /\ crypto.pc = "sealed"
  /\ crypto' = [crypto EXCEPT !.pc = "opened", !.usedKey = k,
                  !.result = DecryptAES(crypto.box, k)]
  /\ UNCHANGED <<serverVars, clientVars, cacheVars, inbox, screen, uiVars>>

\* time passes, up to `limit`
Tick(limit) ==
  /\ now < limit
  /\ now' = now + 1
  /\ UNCHANGED <<clientVars, appVars, pairVars, published, msgVars>>

\* ----------------------------------------------------- pairing screen
\* The terminal's Pairing screen (apps/tui/src/components/pairing.tsx): it
\* shows the QR code of the session it initiated, polls pairing.getStatus
\* every 2 s and counts the remaining time down every second.  `seen` holds
\* the getStatus calls whose answer the screen has had, `polledAt` the time of
\* the latest answer.
NoScreen == [status |-> "idle", sessionId |-> 0, expiresAt |-> 0, polling |-> FALSE,
             seen |-> {}, polledAt |-> -1]

\* initiatePairing returned: setState displaying, startPolling
ScreenDisplay(s) ==
  /\ screen.status = "idle"
  /\ SessionExists(s)
  /\ screen' = [screen EXCEPT !.status = "displaying", !.sessionId = s,
                  !.expiresAt = pairingSession[s].expiresAt, !.polling = TRUE]
  /\ UNCHANGED <<serverVars, clientVars, cacheVars, inbox, crypto, uiVars>>

\* the poll timer fires before the deadline: checkPairingStatus is called
ScreenPoll(c) ==
  /\ screen.polling
  /\ now < screen.expiresAt
  /\ GetStatusBegin(c, "u1", screen.sessionId)

\* the poll timer fires at or after the deadline: the timer is cleared and
\* the screen shows expired without asking the server
ScreenPollExpired ==
  /\ screen.polling
  /\ now >= screen.expiresAt
  /\ screen' = [screen EXCEPT !.status = "expired", !.polling = FALSE]
  /\ UNCHANGED <<serverVars, clientVars, cacheVars, inbox, crypto, uiVars>>

\* checkPairingStatus resolves or rejects; an answer that arrives after the
\* timer was cleared is applied all the same
ScreenPollResult(c) ==
  /\ pcalls[c].op = "getStatus" /\ pcalls[c].pc \in {"ok", "err"}
  /\ c \notin screen.seen
  /\ screen' = [screen EXCEPT
       !.seen = @ \cup {c},
       !.polledAt = now,
       !.status = IF pcalls[c].pc = "ok" /\ pcalls[c].result \in {"completed", "expired"}
                    THEN pcalls[c].result ELSE @,
       !.polling = IF pcalls[c].pc = "ok" /\ pcalls[c].result \in {"completed", "expired"}
                     THEN FALSE ELSE @]
  /\ UNCHANGED <<serverVars, clientVars, cacheVars, inbox, crypto, uiVars>>

\* the countdown timer finds no time remaining; it leaves the poll timer alone
ScreenTimeRemaining ==
  /\ screen.status = "displaying"
  /\ now >= screen.expiresAt
  /\ screen' = [screen EXCEPT !.status = "expired"]
  /\ UNCHANGED <<serverVars, clientVars, cacheVars, inbox, crypto, uiVars>>

\* the clock unit is far longer than a request and than the poll period: the
\* screen shows a session in the unit it was initiated in, and while the poll
\* timer runs an answer has been had at the present time before time moves on
ScreenTick ==
  /\ (\E s \in SessionIds : SessionExists(s)) => screen.status # "idle"
  /\ screen.polling => screen.polledAt = now
  /\ Tick(MaxTime)

\* ------------------------------------------- subscription effect (terminal)
\* The effect that subscribes to message.onMessage in the terminal's Inbox and
\* Menu (inbox.tsx:47-130, menu.tsx:126-180).  The effect callback calls the
\* async setupSubscription() and drops its promise; the callback itself
\* returns nothing, so React has no cleanup to call when the dependencies
\* change or the component unmounts.  The function that unsubscribes is the
\* value the dropped promise resolves to.
MaxEffectRuns == 3
EffectIds == 1..MaxEffectRuns
MountComponents == {"inbox", "menu"}
NoMount == [component |-> NULL, mounted |-> FALSE, runs |-> 0,
            subs |-> [k \in EffectIds |-> "none"],
            handled |-> {}, acked |-> {}, receipts |-> 0]

OpenSubscriptions == {k \in EffectIds : mount.subs[k] = "open"}

\* the component mounts and its effect runs for the first time (the Menu's
\* once its user is loaded)
MountComponent(comp) ==
  /\ mount.component = NULL
  /\ mount' = [mount EXCEPT !.component = comp, !.mounted = TRUE, !.runs = 1,
                            !.subs[1] = "getDeviceId"]
  /\ UNCHANGED <<serverVars, clientVars, cacheVars, inbox, screen, crypto, install, scanner>>

\* a dependency of the Inbox's effect changed (viewMode, currentConversation):
\* React calls the cleanup the previous run returned, which is undefined, and
\* runs the effect again; the Menu's dependency, user, is set once
EffectRerun ==
  /\ mount.mounted
  /\ mount.component = "inbox"
  /\ mount.runs < MaxEffectRuns
  /\ mount' = [mount EXCEPT !.runs = @ + 1, !.subs[mount.runs + 1] = "getDeviceId"]
  /\ UNCHANGED <<serverVars, clientVars, cacheVars, inbox, screen, crypto, install, scanner>>

\* await getDeviceId() and await storage.getItem(lastMessageId) settle
SetupGetDeviceId(k) ==
  /\ mount.subs[k] = "getDeviceId"
  /\ mount' = [mount EXCEPT !.subs[k] = "subscribe"]
  /\ UNCHANGED <<serverVars, clientVars, cacheVars, inbox, screen, crypto, install, scanner>>

\* trpc.message.onMessage.subscribe(...): nothing looks at whether the
\* component is still mounted or whether a later run has started
SetupSubscribe(k) ==
  /\ mount.subs[k] = "subscribe"
  /\ mount' = [mount EXCEPT !.subs[k] = "open"]
  /\ UNCHANGED <<serverVars, clientVars, cacheVars, inbox, screen, crypto, install, scanner>>

\* the component unmounts: again there is no cleanup to call
UnmountComponent ==
  /\ mount.mounted
  /\ mount' = [mount EXCEPT !.mounted = FALSE]
  /\ UNCHANGED <<serverVars, clientVars, cacheVars, inbox, screen, crypto, install, scanner>>

\* the server's one message:received frame reaches subscription k, whose
\* onData runs
SubscriptionOnData(k) ==
  /\ mount.subs[k] = "open"
  /\ k \notin mount.handled
  /\ mount' = [mount EXCEPT !.handled = @ \cup {k}]
  /\ UNCHANGED <<serverVars, clientVars, cacheVars, inbox, screen, crypto, install, scanner>>

\* the Inbox's onData reaches message.updateStatus.mutate({status: "delivered"});
\* the Menu's onData sends no receipt
SubscriptionReceipt(k) ==
  /\ mount.component = "inbox"
  /\ k \in mount.handled \ mount.acked
  /\ mount' = [mount EXCEPT !.acked = @ \cup {k}, !.receipts = @ + 1]
  /\ UNCHANGED <<serverVars, clientVars, cacheVars, inbox, screen, crypto, install, scanner>>

\* ---------------------------------------------- device initialization
\* initializeDevice (apps/tui/src/index.tsx:103-154), run by an effect on
\* every change of `screen`.  Device ids: run r registers the device r; 0 is
\* an id left in storage that the server does not know.
MaxInitRuns == 2
InitRunIds == 1..MaxInitRuns
NoDevice == -1
StaleDevice == 0
IdleInit == [pc |-> "idle", storedDeviceId |-> NoDevice]
NoInstall == [launched |-> FALSE, stored |-> NoDevice, devices |-> {},
              runs |-> [r \in InitRunIds |-> IdleInit]]

\* the program starts with what an earlier session left in storage
Launch(stored) ==
  /\ ~install.launched
  /\ install' = [install EXCEPT !.launched = TRUE, !.stored = stored]
  /\ UNCHANGED <<serverVars, clientVars, cacheVars, inbox, screen, crypto, mount, scanner>>

\* the effect runs: at mount and after every setScreen
InitializeDevice(r) ==
  /\ install.launched
  /\ install.runs[r].pc = "idle"
  /\ \A q \in InitRunIds : q < r => install.runs[q].pc # "idle"
  /\ install' = [install EXCEPT !.runs[r].pc = "getSession"]
  /\ UNCHANGED <<serverVars, clientVars, cacheVars, inbox, screen, crypto, mount, scanner>>

\* await getSession(): without a session the run returns
InitGetSession(r, session) ==
  /\ install.runs[r].pc = "getSession"
  /\ install' = [install EXCEPT !.runs[r].pc = IF session THEN "getDeviceId" ELSE "done"]
  /\ UNCHANGED <<serverVars, clientVars, cacheVars, inbox, screen, crypto, mount, scanner>>

\* let storedDeviceId = await getDeviceId()
InitGetDeviceId(r) ==
  /\ install.runs[r].pc = "getDeviceId"
  /\ install' = [install EXCEPT
       !.runs[r].storedDeviceId = install.stored,
       !.runs[r].pc = IF install.stored # NoDevice THEN "updateLastSeen" ELSE "register"]
  /\ UNCHANGED <<serverVars, clientVars, cacheVars, inbox, screen, crypto, mount, scanner>>

\* device.updateLastSeen settles: NOT_FOUND for an id the server does not
\* have, which leads to clearDeviceId; any other error ends the run in the
\* outer catch
InitUpdateLastSeen(r, reached) ==
  /\ install.runs[r].pc = "updateLastSeen"
  /\ install' = [install EXCEPT !.runs[r].pc =
       IF ~reached THEN "done"
       ELSE IF install.runs[r].storedDeviceId \in install.devices THEN "done"
       ELSE "clear"]
  /\ UNCHANGED <<serverVars, clientVars, cacheVars, inbox, screen, crypto, mount, scanner>>

\* await clearDeviceId(); storedDeviceId = null
InitClearDeviceId(r) ==
  /\ install.runs[r].pc = "clear"
  /\ install' = [install EXCEPT !.stored = NoDevice,
                                !.runs[r].storedDeviceId = NoDevice,
                                !.runs[r].pc = "register"]
  /\ UNCHANGED <<serverVars, clientVars, cacheVars, inbox, screen, crypto, mount, scanner>>

\* device.register without a deviceId: the server inserts a row with a new id
InitRegister(r) ==
  /\ install.runs[r].pc = "register"
  /\ install' = [install EXCEPT !.devices = @ \cup {r},
                                !.runs[r].storedDeviceId = r,
                                !.runs[r].pc = "store"]
  /\ UNCHANGED <<serverVars, clientVars, cacheVars, inbox, screen, crypto, mount, scanner>>

\* await storeDeviceId(device.id); the updateLastSeen that follows changes
\* nothing the run or the storage holds
InitStoreDeviceId(r) ==
  /\ install.runs[r].pc = "store"
  /\ install' = [install EXCEPT !.stored = install.runs[r].storedDeviceId,
                                !.runs[r].pc = "done"]
  /\ UNCHANGED <<serverVars, clientVars, cacheVars, inbox, screen, crypto, mount, scanner>>

\* ------------------------------------------------------ pairing scanner
\* The phone's scanner screen (apps/native/app/(drawer)/pairing.tsx).  The
\* handler the camera calls was made by the latest render and sees that
\* render's `scanned` and `isProcessing`; isScanningRef.current is read and
\* written in place.  `handlers` counts the calls between the guard and
\* completePairing; `atKeys` and `atMutate` count the completePairing calls
\* (apps/native/lib/pairing.ts) that wait for the key store and for
\* pairing.complete.
MaxScans == 4
NoScanner == [mounted |-> FALSE, isScanningRef |-> FALSE,
              scanned |-> FALSE, isProcessing |-> FALSE,
              seenScanned |-> FALSE, seenProcessing |-> FALSE,
              handlers |-> 0, atKeys |-> 0, atMutate |-> 0, hasKeys |-> FALSE,
              alert |-> "none", started |-> 0, passed |-> 0]

\* the completePairing calls in flight
Completing == scanner.atKeys + scanner.atMutate

\* the screen opens
ScannerOpen ==
  /\ ~scanner.mounted /\ scanner.passed = 0 /\ scanner.alert = "none"
  /\ scanner' = [scanner EXCEPT !.mounted = TRUE]
  /\ UNCHANGED <<serverVars, clientVars, cacheVars, inbox, screen, crypto, mount, install>>

\* a handler that trusts the two state values alone
HandleBarCodeScanned_NoRef(valid) ==
  /\ scanner.mounted
  /\ scanner.passed < MaxScans
  /\ ~(scanner.seenScanned \/ scanner.seenProcessing)
  /\ scanner' = [scanner EXCEPT
       !.isScanningRef = TRUE, !.scanned = TRUE, !.isProcessing = TRUE,
       !.passed = @ + 1,
       !.handlers = IF valid THEN @ + 1 ELSE @,
       !.alert = IF valid THEN @ ELSE "invalid"]
  /\ UNCHANGED <<serverVars, clientVars, cacheVars, inbox, screen, crypto, mount, install>>

\* the camera calls handleBarCodeScanned and the guard lets it pass (a call
\* the guard turns away changes nothing): the ref and both state values are
\* set, the payload is parsed, and an invalid payload raises the alert
HandleBarCodeScanned(valid) ==
  /\ scanner.mounted
  /\ scanner.passed < MaxScans
  /\ ~(scanner.seenScanned \/ scanner.seenProcessing \/ scanner.isScanningRef)
  /\ scanner' = [scanner EXCEPT
       !.isScanningRef = TRUE, !.scanned = TRUE, !.isProcessing = TRUE,
       !.passed = @ + 1,
       !.handlers = IF valid THEN @ + 1 ELSE @,
       !.alert = IF valid THEN @ ELSE "invalid"]
  /\ UNCHANGED <<serverVars, clientVars, cacheVars, inbox, screen, crypto, mount, install>>

\* React renders: the camera gets a handler that sees the present state
ScannerRender ==
  /\ scanner.mounted
  /\ <<scanner.seenScanned, scanner.seenProcessing>> # <<scanner.scanned, scanner.isProcessing>>
  /\ scanner' = [scanner EXCEPT !.seenScanned = scanner.scanned,
                                !.seenProcessing = scanner.isProcessing]
  /\ UNCHANGED <<serverVars, clientVars, cacheVars, inbox, screen, crypto, mount, install>>

\* await getDeviceId() settles: completePairing is called, or the alert for a
\* device that is not registered is raised
ScanGetDeviceId(found) ==
  /\ scanner.handlers > 0
  /\ scanner' = [scanner EXCEPT
       !.handlers = @ - 1,
       !.atKeys = IF found THEN @ + 1 ELSE @,
       !.started = IF found THEN @ + 1 ELSE @,
       !.alert = IF found THEN @ ELSE "noDevice"]
  /\ UNCHANGED <<serverVars, clientVars, cacheVars, inbox, screen, crypto, mount, install>>

\* completePairing: without stored keys it generates and stores them; with
\* stored keys it reads the private key, and throws when the read returns
\* nothing
CompletePairingKeys(readable) ==
  /\ scanner.atKeys > 0
  /\ ~scanner.hasKeys => readable
  /\ scanner' = [scanner EXCEPT
       !.atKeys = @ - 1,
       !.hasKeys = TRUE,
       !.atMutate = IF readable THEN @ + 1 ELSE @,
       !.alert = IF readable THEN @ ELSE "failed"]
  /\ UNCHANGED <<serverVars, clientVars, cacheVars, inbox, screen, crypto, mount, install>>

\* pairing.complete.mutate settles: completePairing returns the terminal's
\* data, or throws for an answer without the terminal's key or for an error
CompletePairingSettle(answer) ==
  /\ scanner.atMutate > 0
  /\ scanner' = [scanner EXCEPT !.atMutate = @ - 1,
                                !.alert = IF answer = "paired" THEN "success" ELSE "failed"]
  /\ UNCHANGED <<serverVars, clientVars, cacheVars, inbox, screen, crypto, mount, install>>

\* the user presses Try Again on the alert that offers it
ScanTryAgain ==
  /\ scanner.mounted
  /\ scanner.alert \in {"invalid", "failed"}
  /\ scanner' = [scanner EXCEPT !.isScanningRef = FALSE, !.scanned = FALSE,
                                !.isProcessing = FALSE, !.alert = "none",
                                !.started = 0]
  /\ UNCHANGED <<serverVars, clientVars, cacheVars, inbox, screen, crypto, mount, install>>

\* the user presses Cancel or OK: the screen is left
ScanLeave ==
  /\ scanner.mounted
  /\ scanner.alert # "none"
  /\ scanner' = [scanner EXCEPT !.mounted = FALSE]
  /\ UNCHANGED <<serverVars, clientVars, cacheVars, inbox, screen, crypto, mount, install>>

Init ==
  /\ now = 0
  /\ pairingSession = [s \in SessionIds |-> NoSession]
  /\ devicePairing = {}
  /\ deviceKey = [d \in Devices |-> NULL]
  /\ pcalls = [c \in PairCallIds |-> IdleCall]
  /\ published = {}
  /\ message = [i \in MsgIds |-> NoMsg]
  /\ sends = [i \in SendIds |-> IdleSend]
  /\ upds = [j \in UpdIds |-> IdleUpd]
  /\ sub = [d \in SubDevices |-> NoSub]
  /\ cursor = [d \in SubDevices |-> 0]
  /\ received = [d \in SubDevices |-> {}]
  /\ es = NoSource
  /\ wire = [full |-> <<>>, sent |-> 0]
  /\ dispatched = <<>>
  /\ closes = 0
  /\ fetches = 0
  /\ localRows = <<>>
  /\ localLast = NoLocalCall
  /\ inbox = NoInbox
  /\ screen = NoScreen
  /\ crypto = NoCrypto
  /\ mount = NoMount
  /\ install = NoInstall
  /\ scanner = NoScanner

\* the pairing router with MaxSessions sessions and MaxPairCalls calls
PairingNext ==
  \/ Tick(MaxTime)
  \/ \E u \in Users, d \in Devices : ~SessionExists(MaxSessions) /\ Initiate(u, d)
  \/ \E c \in 1..MaxPairCalls, u \in Users, s \in 1..MaxSessions, d \in Devices,
          k \in Keys : CompleteBegin(c, u, s, d, k)
  \/ \E c \in PairCallIds : CompleteUpdateDevice(c)
  \/ \E c \in PairCallIds : CompleteInsertPairing(c)
  \/ \E c \in PairCallIds : CompleteUpdateSession(c)
  \/ \E c \in PairCallIds : CompleteEmit(c)
  \/ \E c \in 1..MaxPairCalls, u \in Users, s \in 1..MaxSessions : GetStatusBegin(c, u, s)
  \/ \E c \in PairCallIds : GetStatusWriteExpired(c)
  \/ \E c \in PairCallIds : GetStatusFindPairing(c)
  \/ \E c \in 1..MaxPairCalls, u \in Users, s \in 1..MaxSessions : CancelBegin(c, u, s)
  \/ \E c \in PairCallIds : CancelWrite(c)

PairingSpec == Init /\ [][PairingNext]_vars

\* one owner pairing, unpairing and pairing again: the owner's two phones and
\* terminal, MaxRepairSessions sessions and MaxRepairCalls calls
RepairNext ==
  \/ Tick(MaxRepairTime)
  \/ Initiate("u1", "t1")
  \/ \E c \in PairCallIds, s \in SessionIds, d \in {"m1", "m2"} :
       SessionExists(s) /\ CompleteBegin(c, "u1", s, d, "k1")
  \/ \E c \in PairCallIds : CompleteUpdateDevice(c)
  \/ \E c \in PairCallIds : CompleteInsertPairing(c)
  \/ \E c \in PairCallIds : CompleteUpdateSession(c)
  \/ \E c \in PairCallIds : CompleteEmit(c)
  \/ \E c \in PairCallIds, s \in SessionIds : SessionExists(s) /\ GetStatusBegin(c, "u1", s)
  \/ \E c \in PairCallIds : GetStatusFindPairing(c)
  \/ \E d \in {"m1", "m2"} : Unpair("u1", d, "t1")

RepairSpec == Init /\ [][RepairNext]_vars

\* the callers of pairing.complete that differ in whose phone and whose
\* terminal they name: the owner with an own phone, the other user with an
\* own phone, the owner with the other user's phone
OwnershipCallers == {<<"u1", "m1">>, <<"u2", "x1">>, <<"u1", "x1">>}

\* pairing.complete alone, called by both users
OwnershipNext ==
  \/ Tick(MaxTime)
  \/ ~SessionExists(MaxSessions) /\ Initiate("u1", "t1")
  \/ \E c \in 1..MaxPairCalls, s \in 1..MaxSessions, a \in OwnershipCallers :
       CompleteBegin(c, a[1], s, a[2], "k1")
  \/ \E c \in PairCallIds : CompleteUpdateDevice(c)
  \/ \E c \in PairCallIds : CompleteInsertPairing(c)
  \/ \E c \in PairCallIds : CompleteUpdateSession(c)
  \/ \E c \in PairCallIds : CompleteEmit(c)

OwnershipSpec == Init /\ [][OwnershipNext]_vars

\* the read loop over every body of at most MaxFrames frames, cut into
\* chunks in every way
ParserNext ==
  \/ Construct
  \/ TokenSettle("token")
  \/ \E s \in StreamsOf(MaxFrames) : FetchRespond(TRUE, s)
  \/ \E n \in ChunkSizes : ReadChunk(n)
  \/ ReadDone

ParserSpec == Init /\ [][ParserNext]_vars

\* the life of one CookieEventSource: token lookup, fetch, read loop, the
\* transport's failures, and close() at any await
ClientNext ==
  \/ Construct
  \/ \E o \in {"token", "none", "rejected"} : TokenSettle(o)
  \/ \E ok \in BOOLEAN, s \in StreamsOf(MaxClientFrames) : FetchRespond(ok, s)
  \/ FetchReject
  \/ \E o \in {"text", "rejected"} : ErrBodySettle(o)
  \/ \E n \in ChunkSizes : ReadChunk(n)
  \/ ReadDone
  \/ ReadReject
  \/ Close

ClientSpec == Init /\ [][ClientNext]_vars

\* message.send, at most n calls, and the recipient's event stream
DeliveryNext(n) ==
  \/ Tick(MaxSentAt)
  \/ \E i \in 1..n, u \in Users, a \in Senders, b \in Recipients : SendBegin(i, u, a, b)
  \/ \E i \in SendIds : SendInsert(i)
  \/ \E i \in SendIds : SendEmit(i)
  \/ \E d \in Recipients, u \in Users : SubBegin(d, u)
  \/ \E d \in Recipients : SubQueryBacklog(d)
  \/ \E d \in Recipients : SubYield(d)
  \/ \E d \in Recipients : SubAttach(d)
  \/ \E d \in Recipients : SubConsume(d)
  \/ \E d \in Recipients : SubClose(d)

DeliverySpec == Init /\ [][DeliveryNext(MaxSends)]_vars

\* the same with one more message, for replays of several messages
ReplaySpec == Init /\ [][DeliveryNext(MaxMsgs)]_vars

\* message.send, message.updateStatus and the sender's event stream
StatusNext ==
  \/ Tick(MaxSentAt)
  \/ \E i \in 1..MaxStatusMsgs, u \in Users, a \in Senders, b \in Recipients : SendBegin(i, u, a, b)
  \/ \E i \in SendIds : SendInsert(i)
  \/ \E i \in SendIds : SendEmit(i)
  \/ \E j \in UpdIds, u \in Users, i \in MsgIds, st \in {"delivered", "read"} :
       UpdBegin(j, u, i, st)
  \/ \E j \in UpdIds : UpdWrite(j)
  \/ \E j \in UpdIds : UpdEmit(j)
  \/ \E d \in Senders, u \in Users : SubBegin(d, u)
  \/ \E d \in Senders : SubAttach(d)
  \/ \E d \in Senders : SubConsume(d)
  \/ \E d \in Senders : SubClose(d)

StatusSpec == Init /\ [][StatusNext]_vars

\* a client's cache under every sequence of its three writes
LocalDbNext ==
  \/ \E m \in LocalMessages : LocalSave(m)
  \/ \E id \in LocalMsgIds, st \in LocalStatuses : LocalUpdateStatus(id, st)
  \/ \E c \in {"m1", "m2"} : LocalMarkRead(c)

LocalDbSpec == Init /\ [][LocalDbNext]_vars

\* one client's subscription receiving the frames, each decryptable or not
InboxNext ==
  \/ \E c \in InboxClients : InboxSubscribe(c)
  \/ \E n \in 1..Len(InboxFrames), good \in BOOLEAN : InboxOnData(n, good)
  \/ \E f \in LocalMsgIds : InboxSetLastMessageId(f)
  \/ \E f \in LocalMsgIds : InboxDecrypt(f)
  \/ \E f \in LocalMsgIds : InboxAck(f)
  \/ \E f \in LocalMsgIds, o \in {"reported", "exit"} : InboxUnhandledRejection(f, o)

InboxSpec == Init /\ [][InboxNext]_vars

\* the terminal's Pairing screen polling while the owner's phone completes
ScreenNext ==
  \/ ScreenTick
  \/ ~SessionExists(MaxSessions) /\ Initiate("u1", "t1")
  \/ \E s \in 1..MaxSessions : ScreenDisplay(s)
  \/ \E c \in PairCallIds : ScreenPoll(c)
  \/ \E c \in PairCallIds : GetStatusFindPairing(c)
  \/ \E c \in PairCallIds : ScreenPollResult(c)
  \/ ScreenPollExpired
  \/ ScreenTimeRemaining
  \/ \E c \in PairCallIds, s \in 1..MaxSessions :
       SessionExists(s) /\ CompleteBegin(c, "u1", s, "m1", "k1")
  \/ \E c \in PairCallIds : CompleteUpdateDevice(c)
  \/ \E c \in PairCallIds : CompleteInsertPairing(c)
  \/ \E c \in PairCallIds : CompleteUpdateSession(c)
  \/ \E c \in PairCallIds : CompleteEmit(c)

ScreenSpec == Init /\ [][ScreenNext]_vars

\* one plaintext sealed under one key, carried, and opened under a key
CryptoNext ==
  \/ \E pt \in Plaintexts, k \in Keys, iv \in Nonces : CryptoEncrypt(pt, k, iv)
  \/ \E iv \in Nonces : CryptoAlterNonce(iv)
  \/ \E i \in 1..(2 * MaxPlainLen), b \in 0..(ByteBase - 1) : CryptoAlterData(i, b)
  \/ \E k \in Keys, iv \in Nonces : CryptoAlterTag(GHash(k, iv, crypto.box.data))
  \/ CryptoAlterTag(JunkTag)
  \/ \E how \in {"nonce", "tag", "later"} : CryptoTruncate(how)
  \/ \E k \in Keys : CryptoDecrypt(k)

CryptoSpec == Init /\ [][CryptoNext]_vars

\* receipts for the owner's messages, sent by either user, for message ids
\* that exist and for one that never does; the n-th send's id is called n
ReceiptNext ==
  \/ \E i \in 1..MaxStatusMsgs : SendBegin(i, "u1", "m1", "t1") /\ sends'[i].id = i
  \/ \E i \in SendIds : SendInsert(i)
  \/ \E i \in SendIds : SendEmit(i)
  \/ \E j \in UpdIds, u \in Users, i \in 1..(MaxStatusMsgs + 1),
          st \in {"delivered", "read"} : UpdBegin(j, u, i, st)
  \/ \E j \in UpdIds : UpdWrite(j)
  \/ \E j \in UpdIds : UpdEmit(j)

ReceiptSpec == Init /\ [][ReceiptNext]_vars

\* the owner's phone and terminal sending to each other, each with one event
\* stream that consumes at its own pace
BusNext ==
  \/ \E i \in 1..MaxSends, a \in SubDevices, b \in SubDevices :
       a # b /\ SendBegin(i, "u1", a, b)
  \/ \E i \in SendIds : SendInsert(i)
  \/ \E i \in SendIds : SendEmit(i)
  \/ \E d \in SubDevices : sub[d].gen = 0 /\ SubBegin(d, "u1")
  \/ \E d \in SubDevices : SubAttach(d)
  \/ \E d \in SubDevices : SubConsume(d)

BusSpec == Init /\ [][BusNext]_vars

\* the terminal announcing its key and asking for a session, and a phone
\* completing it
KeyNext ==
  \/ Tick(MaxTime)
  \/ \E k \in Keys \cup {NULL} : DeviceRegister("u1", "t1", k)
  \/ ~SessionExists(MaxSessions) /\ Initiate("u1", "t1")
  \/ \E c \in 1..MaxPairCalls, s \in 1..MaxSessions, k \in Keys :
       CompleteBegin(c, "u1", s, "m1", k)
  \/ \E c \in PairCallIds : CompleteUpdateDevice(c)
  \/ \E c \in PairCallIds : CompleteInsertPairing(c)
  \/ \E c \in PairCallIds : CompleteUpdateSession(c)
  \/ \E c \in PairCallIds : CompleteEmit(c)

KeySpec == Init /\ [][KeyNext]_vars

\* the owner's phone sending to every device there is, while it pairs with
\* the owner's terminal
RecipientNext ==
  \/ ~SessionExists(MaxSessions) /\ Initiate("u1", "t1")
  \/ \E c \in 1..MaxPairCalls, s \in 1..MaxSessions : CompleteBegin(c, "u1", s, "m1", "k1")
  \/ \E c \in PairCallIds : CompleteUpdateDevice(c)
  \/ \E c \in PairCallIds : CompleteInsertPairing(c)
  \/ \E c \in PairCallIds : CompleteUpdateSession(c)
  \/ \E c \in PairCallIds : CompleteEmit(c)
  \/ \E i \in 1..MaxSends, r \in Devices : SendBegin(i, "u1", "m1", r)
  \/ \E i \in SendIds : SendInsert(i)
  \/ \E i \in SendIds : SendEmit(i)

RecipientSpec == Init /\ [][RecipientNext]_vars

\* the owner's phone and terminal sending to each other and the terminal's
\* event stream, asked for by either user; the n-th send's id is called n
ChannelNext ==
  \/ Tick(MaxSentAt)
  \/ \E i \in 1..MaxSends, a \in SubDevices, b \in SubDevices :
       a # b /\ SendBegin(i, "u1", a, b) /\ sends'[i].id = i
  \/ \E i \in SendIds : SendInsert(i)
  \/ \E i \in SendIds : SendEmit(i)
  \/ \E u \in Users : SubBegin("t1", u)
  \/ SubQueryBacklog("t1")
  \/ SubYield("t1")
  \/ SubAttach("t1")
  \/ SubConsume("t1")
  \/ SubClose("t1")

ChannelSpec == Init /\ [][ChannelNext]_vars

\* a mounted Inbox or Menu, the runs of its subscription effect, and one
\* message arriving
MountNext ==
  \/ \E comp \in MountComponents : MountComponent(comp)
  \/ EffectRerun
  \/ \E k \in EffectIds : SetupGetDeviceId(k)
  \/ \E k \in EffectIds : SetupSubscribe(k)
  \/ UnmountComponent
  \/ \E k \in EffectIds : SubscriptionOnData(k)
  \/ \E k \in EffectIds : SubscriptionReceipt(k)

MountSpec == Init /\ [][MountNext]_vars

\* the terminal starting with or without a device id in storage, and
\* MaxInitRuns runs of initializeDevice
InstallNext ==
  \/ \E d \in {NoDevice, StaleDevice} : Launch(d)
  \/ \E r \in InitRunIds : InitializeDevice(r)
  \/ \E r \in InitRunIds, session \in BOOLEAN : InitGetSession(r, session)
  \/ \E r \in InitRunIds : InitGetDeviceId(r)
  \/ \E r \in InitRunIds, reached \in BOOLEAN : InitUpdateLastSeen(r, reached)
  \/ \E r \in InitRunIds : InitClearDeviceId(r)
  \/ \E r \in InitRunIds : InitRegister(r)
  \/ \E r \in InitRunIds : InitStoreDeviceId(r)

InstallSpec == Init /\ [][InstallNext]_vars

\* the scanner with the camera reporting codes at any moment
ScannerNext ==
  \/ ScannerOpen
  \/ \E valid \in BOOLEAN : HandleBarCodeScanned(valid)
  \/ ScannerRender
  \/ \E found \in BOOLEAN : ScanGetDeviceId(found)
  \/ \E readable \in BOOLEAN : CompletePairingKeys(readable)
  \/ \E answer \in {"paired", "noTuiKey", "error"} : CompletePairingSettle(answer)
  \/ ScanTryAgain
  \/ ScanLeave

ScannerSpec == Init /\ [][ScannerNext]_vars

Next == PairingNext \/ RepairNext \/ OwnershipNext \/ ParserNext \/ ClientNext \/ DeliveryNext(MaxMsgs) \/ StatusNext
          \/ LocalDbNext \/ InboxNext \/ BusNext \/ ScreenNext \/ CryptoNext \/ ReceiptNext
          \/ KeyNext \/ RecipientNext \/ ChannelNext
          \/ MountNext \/ InstallNext \/ ScannerNext

Spec == Init /\ [][Next]_vars

\* ================================================================ claims

\* the complete calls made on session s
CompletesOn(s) ==
  {c \in PairCallIds : pcalls[c].op = "complete" /\ pcalls[c].sid = s}

\* a complete call by the owner of the session's terminal, for one of the
\* owner's mobile devices
OwnerCall(c) ==
  /\ pcalls[c].op = "complete"
  /\ SessionExists(pcalls[c].sid)
  /\ deviceUserId[pcalls[c].mob] = pcalls[c].user
  /\ deviceType[pcalls[c].mob] = "mobile"
  /\ deviceUserId[pairingSession[pcalls[c].sid].tuiDeviceId] = pcalls[c].user

\* C1: of the complete calls on one session, however interleaved, at most one
\* returns success, at most one DevicePairing row results from the session,
\* and once one call has succeeded every other finished call by the owner has
\* failed with BadRequest or Conflict.
C1_ExactlyOneCompletion ==
  \A s \in SessionIds :
    /\ Cardinality({c \in CompletesOn(s) : pcalls[c].pc = "ok"}) <= 1
    /\ Cardinality({p \in devicePairing : pcalls[p.id].sid = s}) <= 1
    /\ \A c1, c2 \in CompletesOn(s) :
         (c1 # c2 /\ pcalls[c1].pc = "ok" /\ OwnerCall(c2) /\ pcalls[c2].pc \in {"ok", "err"})
           => (pcalls[c2].pc = "err" /\ pcalls[c2].result \in {"BAD_REQUEST", "CONFLICT"})

\* the subscription of device d ran the backlog query
RanBacklog(d) == sub[d].lastSentAt >= 0

EventQueued(d, e) == \E k \in DOMAIN sub[d].buf : sub[d].buf[k] = e

YieldedIds(d) == {sub[d].yielded[k].id : k \in DOMAIN sub[d].yielded}

WasPublished(i) ==
  \E e \in published : e.type = "message:received" /\ e.ref = i

\* C2: no MessageReceived event is lost at the switch from replay to live
\* tailing: once a subscription that ran the backlog query is tailing live,
\* every message for the device that was committed after the query and has
\* been published was yielded by this subscription or is queued for it.
C2_NoLossAtSwitch ==
  \A d \in SubDevices :
    (sub[d].pc = "live" /\ RanBacklog(d)) =>
      \A i \in MsgIds :
        (/\ MsgExists(i)
         /\ message[i].recipientDeviceId = d
         /\ i \notin sub[d].base
         /\ WasPublished(i))
          => \/ i \in YieldedIds(d)
             \/ \E e \in published : e.ref = i /\ EventQueued(d, e)

StatusRank(st) ==
  CASE st = "none" -> 0
    [] st = "pending" -> 1
    [] st = "sent" -> 2
    [] st = "delivered" -> 3
    [] st = "read" -> 4

\* C3: in every step a message's stored status stays or moves forward along
\* sent -> delivered -> read; it never regresses.
C3_StatusNeverRegresses ==
  [][\A i \in MsgIds :
       StatusRank(message'[i].status) >= StatusRank(message[i].status)]_vars

\* C4: a MessageReceived event is published only for a row that is already
\* inserted, so every message id a subscriber is handed or has queued is
\* queryable, and a send whose insert has not happened or has failed has
\* published nothing.
C4_PublishAfterCommit ==
  /\ \A e \in published :
       e.type = "message:received" =>
         (MsgExists(e.ref) /\ message[e.ref].recipientDeviceId = e.deviceId)
  /\ \A d \in SubDevices : \A i \in YieldedIds(d) : MsgExists(i)
  /\ \A i \in SendIds :
       sends[i].pc \in {"insert", "err"} =>
         ~\E e \in published : e.type = "message:received" /\ e.by = i

\* one send was published to a listening subscriber that was handed the
\* message, and another send's insert failed
C4_Witness ==
  /\ \E i \in SendIds : sends[i].pc = "ok" /\ sends[i].id \in received[sends[i].recipient]
  /\ \E i \in SendIds : sends[i].pc = "err" /\ sends[i].result = "INTERNAL_SERVER_ERROR"

\* nothing is in flight for device d: its subscription is tailing live with
\* an empty queue and no send is between its insert and its publish
Quiescent(d) ==
  /\ sub[d].pc = "live"
  /\ sub[d].buf = <<>>
  /\ \A i \in SendIds : sends[i].pc \notin {"insert", "emit"}

\* C5: every persisted message reaches its recipient: when the recipient,
\* which always resubscribes with the id of the last event it was handed, is
\* tailing live and nothing is in flight, it has been handed every message
\* addressed to it.
C5_AtLeastOnce ==
  \A d \in SubDevices :
    Quiescent(d) =>
      \A i \in MsgIds :
        (MsgExists(i) /\ message[i].recipientDeviceId = d) => i \in received[d]

\* the ids of the replayed frames of d's subscription, in the order yielded
ReplayFrames(d) ==
  SelectSeq(sub[d].yielded, LAMBDA f : f.kind = "replay")

\* ascending (sentAt, id)
Before(a, b) ==
  \/ message[a].sentAt < message[b].sentAt
  \/ message[a].sentAt = message[b].sentAt /\ a < b

\* C6: a subscription resumed with cursor = id of the last-seen message
\* replays exactly the messages for the device with a later sentAt than the
\* cursor's that existed at the query, each once, in ascending (sentAt, id)
\* order, and every replayed frame comes before any live frame.
C6_ReplayExactInOrder ==
  \A d \in SubDevices :
    (sub[d].pc = "live" /\ RanBacklog(d)) =>
      LET fr == ReplayFrames(d)
          want == {i \in sub[d].base : /\ message[i].recipientDeviceId = d
                                       /\ message[i].sentAt > sub[d].lastSentAt}
      IN /\ {fr[k].id : k \in DOMAIN fr} = want
         /\ Len(fr) = Cardinality(want)
         /\ \A a, b \in DOMAIN fr : a < b => Before(fr[a].id, fr[b].id)
         /\ \A a, b \in DOMAIN sub[d].yielded :
              (sub[d].yielded[a].kind = "replay" /\ sub[d].yielded[b].kind = "live") => a < b

\* C7: for every device and every cursor X naming a message addressed to it,
\* the ids onMessage replays for lastEventId = X are the ids getPending
\* returns for since = X.
C7_ReplayEqualsPoll ==
  \A d \in SubDevices : \A x \in MsgIds :
    (MsgExists(x) /\ message[x].recipientDeviceId = d)
      => Replayed(d, x) = GetPending(d, x)

\* C8: a StatusUpdated event published on the sender's channel while the
\* sender's subscription is open is yielded by it: once the subscription has
\* taken the event from its queue, a frame with that messageId and status is
\* among its yielded frames.
C8_StatusFrameYielded ==
  \A d \in SubDevices :
    sub[d].pc = "live" =>
      \A e \in sub[d].heard :
        (e.type = "message:status_updated" /\ ~EventQueued(d, e))
          => \E k \in DOMAIN sub[d].yielded :
               /\ sub[d].yielded[k].type = "message:status_updated"
               /\ sub[d].yielded[k].id = e.ref
               /\ sub[d].yielded[k].status = e.status

\* C9: on one session a successful complete and a lazy expiry write by
\* getStatus never both happen: exactly one of the two transitions wins.
C9_OneTransitionWins ==
  \A s \in SessionIds :
    ~(/\ \E c \in CompletesOn(s) : pcalls[c].pc = "ok"
      /\ \E c \in PairCallIds : /\ pcalls[c].op = "getStatus" /\ pcalls[c].sid = s
                                /\ pcalls[c].pc = "ok" /\ pcalls[c].result = "expired"
                                /\ pcalls[c].seen # "expired")

\* C10: a complete call that finds the session completed or expired fails at
\* once: it never goes on to write the key, insert a pairing or publish.
C10_TerminalSessionRejects ==
  \A c \in PairCallIds :
    (pcalls[c].op = "complete" /\ pcalls[c].seen \in {"completed", "expired"})
      => (pcalls[c].pc = "err" /\ pcalls[c].result = "BAD_REQUEST")

\* C11: once a session's status is completed or expired no step changes it,
\* and a cancel call that read a terminal status does not return success.
C11_TerminalIsFinal ==
  [][\A s \in SessionIds :
       /\ pairingSession[s].status \in {"completed", "expired"}
            => pairingSession'[s].status = pairingSession[s].status
       /\ \A c \in PairCallIds :
            (/\ pcalls'[c].op = "cancel" /\ pcalls'[c].sid = s
             /\ pcalls'[c].seen \in {"completed", "expired"})
              => pcalls'[c].pc # "ok"]_vars

\* C12: a complete call by the owner's phone that reads a pending session
\* after expiresAt fails with BAD_REQUEST and leaves the session's stored
\* status expired.
C12_LateCompleteMarksExpired ==
  [][\A c \in PairCallIds :
       (/\ pcalls[c].pc = "idle" /\ pcalls'[c].op = "complete"
        /\ deviceUserId[pcalls'[c].mob] = pcalls'[c].user
        /\ deviceType[pcalls'[c].mob] = "mobile"
        /\ SessionExists(pcalls'[c].sid)
        /\ pairingSession[pcalls'[c].sid].status = "pending"
        /\ now > pairingSession[pcalls'[c].sid].expiresAt)
         => /\ pcalls'[c].pc = "err" /\ pcalls'[c].result = "BAD_REQUEST"
            /\ pairingSession'[pcalls'[c].sid].status = "expired"]_vars

\* a complete call that got as far as writing the phone's key
WroteKey(c) ==
  /\ pcalls[c].op = "complete"
  /\ \/ pcalls[c].pc \in {"insPairing", "updSession", "emit", "ok"}
     \/ pcalls[c].result = "INTERNAL_SERVER_ERROR"

\* the key the call wrote is the stored one, and no call that did not fail
\* wrote the same key for the same phone
KeyStands(c) ==
  /\ WroteKey(c)
  /\ deviceKey[pcalls[c].mob] = pcalls[c].key
  /\ ~\E b \in PairCallIds \ {c} :
        /\ WroteKey(b) /\ pcalls[b].pc # "err"
        /\ pcalls[b].mob = pcalls[c].mob /\ pcalls[b].key = pcalls[c].key

\* C13: complete has no partial effects: a call that returned success left a
\* pairing row for its pair and a published PairingCompleted, and a call
\* that failed left no pairing row, no event and no key.
C13_CompleteAllOrNothing ==
  \A c \in PairCallIds :
    /\ (pcalls[c].op = "complete" /\ pcalls[c].pc = "ok")
         => /\ PairingRowExists(pcalls[c].mob, pcalls[c].tui)
            /\ \E e \in published : e.type = "pairing:completed" /\ e.by = c
    /\ (pcalls[c].op = "complete" /\ pcalls[c].pc = "err")
         => /\ ~\E p \in devicePairing : p.id = c
            /\ ~\E e \in published : e.type = "pairing:completed" /\ e.by = c
            /\ ~KeyStands(c)

InactiveRow(mob, tui) ==
  \E p \in devicePairing :
    p.mobileDeviceId = mob /\ p.tuiDeviceId = tui /\ ~p.isActive

\* C14: a pair of devices never has two rows, and when the only complete call
\* of a session reaches the insert while the pair's row is inactive, the call
\* goes on and the row is active again.
C14_RepairReactivates ==
  [][/\ \A p, q \in devicePairing' :
          (p.mobileDeviceId = q.mobileDeviceId /\ p.tuiDeviceId = q.tuiDeviceId) => p = q
     /\ \A c \in PairCallIds :
          (/\ pcalls[c].op = "complete" /\ pcalls[c].pc = "insPairing"
           /\ pcalls'[c].pc # "insPairing"
           /\ CompletesOn(pcalls[c].sid) = {c}
           /\ InactiveRow(pcalls[c].mob, pcalls[c].tui))
            => /\ pcalls'[c].pc = "updSession"
               /\ \E p \in devicePairing' :
                    /\ p.mobileDeviceId = pcalls[c].mob
                    /\ p.tuiDeviceId = pcalls[c].tui /\ p.isActive]_vars

\* C15: after the one complete call of a session succeeded for phone M, as
\* long as the pair is active the phone lists the terminal and every list the
\* terminal can get holds M, and every getStatus call that read the session
\* as completed returns completed with M as the mobile device.
C15_PairedAndReported ==
  \A c \in PairCallIds :
    (/\ pcalls[c].op = "complete" /\ pcalls[c].pc = "ok"
     /\ CompletesOn(pcalls[c].sid) = {c})
      => /\ (PairingRowExists(pcalls[c].mob, pcalls[c].tui)
               /\ ~InactiveRow(pcalls[c].mob, pcalls[c].tui))
              => /\ pcalls[c].tui \in GetPairedOfMobile(pcalls[c].mob)
                 /\ \A r \in GetPairedOfTui(pcalls[c].tui) : pcalls[c].mob \in r
         /\ \A g \in PairCallIds :
              (/\ pcalls[g].op = "getStatus" /\ pcalls[g].sid = pcalls[c].sid
               /\ pcalls[g].pc = "ok" /\ pcalls[g].seen = "completed")
                => pcalls[g].result = "completed" /\ pcalls[g].peer = pcalls[c].mob

\* a complete call by a phone's owner that found its session, the session's
\* terminal having another owner
CrossOwner(c) ==
  /\ pcalls[c].op = "complete"
  /\ pcalls[c].seen # "none"
  /\ deviceUserId[pcalls[c].mob] = pcalls[c].user
  /\ deviceType[pcalls[c].mob] = "mobile"
  /\ deviceUserId[pcalls[c].mob] # deviceUserId[pcalls[c].tui]

Messages == SelectSeq(dispatched, LAMBDA e : e.kind = "message")

\* the part of the body that has arrived so far
Arrived == SubSeq(wire.full, 1, wire.sent)

\* C17: however the body is cut into chunks, the message events dispatched
\* for the part that has arrived are the ones dispatched when that part
\* arrives as one chunk: same types, data and ids, in the same order.
C17_ChunkingInvariant ==
  es.pc \in {"read", "done"} => Messages = ProcessChunk(<<>>, Arrived).out

\* C18: once close() has been called, no event is dispatched any more and no
\* fetch is started.
C18_SilentAfterClose ==
  [][closes >= 1 => (dispatched' = dispatched /\ fetches' = fetches)]_vars

\* C19: no error event is dispatched because of an abort: every error event
\* comes from a failure of the transport or a response that is not OK.
C19_AbortIsNotAnError ==
  \A k \in DOMAIN dispatched :
    dispatched[k].kind = "error" => dispatched[k].cause # "abort"

\* the source has handled a failure of fetch, of a read or of the response
Failed == es.failure # "none" /\ es.pc = "done"

\* C20: after a failure of the transport that is not an abort (fetch or a
\* read rejects, or the response is not OK) the source is CLOSED, has
\* dispatched exactly one error event, dispatched it last, and has called
\* fetch once.
C20_FailureStops ==
  /\ Failed =>
       /\ es.readyState = 2
       /\ dispatched # <<>> /\ dispatched[Len(dispatched)].kind = "error"
       /\ fetches = 1
  /\ \A k \in DOMAIN dispatched :
       dispatched[k].kind = "error" => k = Len(dispatched)

C20_Witness ==
  /\ Failed /\ es.failure = "read"
  /\ Messages # <<>>
  /\ dispatched[Len(dispatched)].cause = "network"

\* C21: the streaming request is never issued before the token lookup has
\* settled, and when the lookup returned a token the request's Cookie header
\* carries it.
C21_TokenBeforeFetch ==
  /\ es.pc \in {"none", "token"} => fetches = 0
  /\ fetches > 0 => es.token # NULL
  /\ es.token = "token" => es.cookie = "session_token"

C21_Witness ==
  /\ es.token = "token"
  /\ fetches = 1
  /\ es.pc = "read"
  /\ es.cookie = "session_token"

\* the cache as its readers see it: the rows in scan order and the
\* conversation list under either tie rule
SameCache(a, b) ==
  /\ a = b
  /\ \A tie \in TieRules : GetConversations(a, tie) = GetConversations(b, tie)

\* C22: saving the same LocalMessage a second time leaves the stored rows and
\* getConversations() as they were after the first time, whatever the cache
\* held before.
C22_SaveTwiceIsSaveOnce ==
  [][(localLast'.op = "saveMessage" /\ localLast'.times = 2)
       => SameCache(localRows', localRows)]_vars

C22_Witness ==
  /\ localLast.op = "saveMessage"
  /\ localLast.times = 2
  /\ Len(localRows) = 2
  /\ localRows[1].conversationId = localRows[2].conversationId
  /\ localRows[1].timestamp = localRows[2].timestamp

\* C23: updateMessageStatus for an id that has no row raises no error and
\* leaves the cache unchanged.
C23_UpdateOfMissingRowIsNoOp ==
  [][(localLast'.op = "updateMessageStatus" /\ ~localLast'.hit)
       => (localLast'.result = "ok" /\ SameCache(localRows', localRows))]_vars

C23_Witness ==
  /\ localLast.op = "updateMessageStatus"
  /\ ~localLast.hit
  /\ localLast.result = "ok"
  /\ Len(localRows) = 1
  /\ localRows[1].id # localLast.id

\* a frame whose decryption failed, and a later frame that could be decrypted
FailedFrame(f) == inbox.handlers[f].pc \in {"rejected", "unhandled", "caught"}

\* C24: when the decryption of one received frame fails in onData, the
\* subscription stays open, and a later frame is decrypted, stored and
\* acknowledged: its handler is never left where it stopped.
C24_DecryptFailureIsContained ==
  \A n \in 1..Len(InboxFrames) :
    FailedFrame(InboxFrames[n]) =>
      /\ inbox.open
      /\ \A k \in (n + 1)..Len(InboxFrames) :
           inbox.handlers[InboxFrames[k]].pc = "done"
             => /\ HasRow(localRows, InboxFrames[k])
                /\ InboxFrames[k] \in inbox.acked

\* C25: emitAppEvent is never held back by a slow subscriber: a send that has
\* committed can always publish, the event is queued for every listener on
\* its channel however many events wait there, and the other channels'
\* subscribers are left as they were.
C25_PublisherNeverWaits ==
  [][/\ \A i \in SendIds : sends[i].pc = "emit" => ENABLED SendEmit(i)
     /\ \A e \in published' \ published : \A d \in SubDevices :
          IF d = e.deviceId /\ sub[d].pc = "live"
            THEN sub'[d].buf = Append(sub[d].buf, e)
            ELSE sub'[d] = sub[d]]_vars

\* the terminal's stream is stalled with an event waiting while the phone's
\* stream has been handed everything published to it
C25_Witness ==
  /\ sub["t1"].pc = "live" /\ sub["t1"].buf # <<>> /\ sub["t1"].yielded = <<>>
  /\ sub["m1"].pc = "live" /\ sub["m1"].buf = <<>> /\ sub["m1"].yielded # <<>>
  /\ \E k \in 1..Len(sub["t1"].buf), i \in SendIds :
       /\ sends[i].recipient = "m1" /\ sends[i].pc = "ok"
       /\ sub["t1"].buf[k].by # i

\* C26: polling alone tells the terminal the outcome: once pairing.complete
\* has succeeded for the session the Pairing screen is polling, the screen
\* does not turn to expired.
C26_PollingShowsCompletion ==
  [][(screen'.status = "expired" /\ screen.status # "expired")
       => ~\E c \in CompletesOn(screen.sessionId) : pcalls[c].pc = "ok"]_vars

\* C27: decrypt(encrypt(p, k), k) = p for every plaintext p and key k.
C27_RoundTrip ==
  (crypto.pc = "opened" /\ crypto.altered = "no" /\ crypto.usedKey = crypto.key)
    => crypto.result = Success(crypto.plaintext)

\* the three cases of a ciphertext that must not open: produced under another
\* key than the one used, altered in nonce, text or tag, or cut short
MustNotOpen ==
  \/ crypto.altered = "no" /\ crypto.usedKey # crypto.key
  \/ crypto.altered \in {"nonce", "data", "tag"} /\ crypto.usedKey = crypto.key
  \/ crypto.altered = "cut"

\* C28: decrypt under another key, of a ciphertext with an altered nonce,
\* text or tag, or of a cut input fails with a decryption failure and returns
\* no plaintext.
C28_TamperIsDetected ==
  (crypto.pc = "opened" /\ MustNotOpen)
    => /\ ~crypto.result.ok
       /\ crypto.result.value = <<>>
       /\ crypto.result.error \in DecryptionFailures

C28_Witness ==
  /\ crypto.pc = "opened"
  /\ crypto.altered = "data"
  /\ crypto.usedKey = crypto.key
  /\ crypto.plaintext # <<>>
  /\ crypto.result = Failure("aes/gcm: invalid ghash tag")

\* an updateStatus call whose caller owns the recipient device of its message
OwnsRecipient(j) ==
  /\ MsgExists(upds[j].messageId)
  /\ deviceUserId[message[upds[j].messageId].recipientDeviceId] = upds[j].user

\* C29: message.updateStatus succeeds only for the owner of the message's
\* recipient device; a call by anyone else, or for an unknown id, fails, and
\* no step changes a message's status or timestamps or publishes a status
\* event except on behalf of an owner's call.
C29_OnlyRecipientOwnerUpdates ==
  [][/\ \A j \in UpdIds :
          /\ upds'[j].pc \in {"write", "emit", "ok"} => OwnsRecipient(j)'
          /\ (upds[j].pc = "idle" /\ upds'[j].pc # "idle" /\ ~OwnsRecipient(j)')
               => (upds'[j].pc = "err" /\ upds'[j].result = "FORBIDDEN")
          /\ upds[j].pc = "err" => upds'[j] = upds[j]
     /\ \A i \in MsgIds :
          (MsgExists(i) /\ message'[i] # message[i])
            => \E j \in UpdIds : /\ upds[j].pc = "write" /\ upds'[j].pc = "emit"
                                 /\ upds[j].messageId = i /\ OwnsRecipient(j)
     /\ \A e \in published' \ published :
          e.type = "message:status_updated"
            => (upds[e.by].pc = "emit" /\ upds[e.by].messageId = e.ref /\ OwnsRecipient(e.by))]_vars

\* a call by the other user on a message that exists has failed and the
\* message is as it was sent; a call for an id of no message has failed too
C29_Witness ==
  \E j, k \in UpdIds :
    /\ upds[j].pc = "err" /\ upds[j].user = "u2" /\ MsgExists(upds[j].messageId)
    /\ message[upds[j].messageId].status = "sent"
    /\ message[upds[j].messageId].deliveredAt = -1
    /\ upds[k].pc = "err" /\ upds[k].user = "u1" /\ ~MsgExists(upds[k].messageId)
    /\ published \subseteq {e \in published : e.type # "message:status_updated"}

\* C30: deliveredAt and readAt are each set at most once: once a message has
\* the timestamp, no later step changes it.
C30_TimestampsSetOnce ==
  [][\A i \in MsgIds :
       /\ message[i].deliveredAt # -1 => message'[i].deliveredAt = message[i].deliveredAt
       /\ message[i].readAt # -1 => message'[i].readAt = message[i].readAt]_vars

\* C31: a device's stored key is null until the device takes part in a
\* completed pairing: every device with a key is a member of some pairing row
C31_KeyOnlyAfterPairing ==
  \A d \in Devices :
    deviceKey[d] # NULL =>
      \E p \in devicePairing : p.mobileDeviceId = d \/ p.tuiDeviceId = d


\* the rows of one peer that no row of the peer is newer than
NewestRows(conv) ==
  {i \in RowsOf(localRows, conv) :
     \A j \in RowsOf(localRows, conv) : localRows[j].timestamp <= localRows[i].timestamp}

\* C32: getConversations() returns exactly one summary per peer that has a
\* row; its text and timestamp are those of a newest row of the peer and its
\* unread count is the number of the peer's received rows that are not read
C32_OneSummaryPerPeer ==
  \A tie \in TieRules :
    LET out == GetConversations(localRows, tie)
    IN /\ {out[n].conversationId : n \in 1..Len(out)}
            = {localRows[i].conversationId : i \in 1..Len(localRows)}
       /\ \A n, k \in 1..Len(out) : out[n].conversationId = out[k].conversationId => n = k
       /\ \A n \in 1..Len(out) :
            /\ \E i \in NewestRows(out[n].conversationId) :
                 /\ out[n].lastMessage = localRows[i].content
                 /\ out[n].lastTimestamp = localRows[i].timestamp
            /\ out[n].unreadCount =
                 Cardinality({i \in RowsOf(localRows, out[n].conversationId) :
                                ~localRows[i].isSent /\ localRows[i].status # "read"})

\* a peer with a sent row and a newer or older received row that is unread
C32_Witness ==
  /\ Len(GetConversations(localRows, "lowRowid")) = 1
  /\ \E i, j \in 1..Len(localRows) :
       /\ localRows[i].conversationId = localRows[j].conversationId
       /\ localRows[i].isSent /\ localRows[i].status # "read"
       /\ ~localRows[j].isSent /\ localRows[j].status # "read"
       /\ localRows[i].timestamp # localRows[j].timestamp


\* C33: a frame without data dispatches nothing and its id never carries over
\* to the next dispatched frame: the only frame sent with the id "b" has no
\* data, so no dispatched event has that id
C33_DatalessFrameLeavesNothing ==
  \A n \in 1..Len(dispatched) :
    dispatched[n].kind = "message" => dispatched[n].lastEventId # <<"b">>


\* an active pairing row joins the two devices
ActivelyPaired(a, b) ==
  \E p \in devicePairing :
    /\ p.isActive
    /\ \/ p.mobileDeviceId = a /\ p.tuiDeviceId = b
       \/ p.mobileDeviceId = b /\ p.tuiDeviceId = a

\* C34: message.send persists and publishes nothing for a recipient that
\* belongs to another identity or is not actively paired with the sender:
\* every stored message and every published MessageReceived is between two
\* devices of one owner that an active pairing joins (no pairing is ended here)
C34_RecipientIsPairedPeer ==
  /\ \A i \in MsgIds :
       MsgExists(i) =>
         /\ deviceUserId[message[i].recipientDeviceId] = deviceUserId[message[i].senderDeviceId]
         /\ ActivelyPaired(message[i].senderDeviceId, message[i].recipientDeviceId)
  /\ \A e \in published :
       e.type = "message:received" =>
         /\ deviceUserId[e.deviceId] = "u1"
         /\ ActivelyPaired("m1", e.deviceId)


\* every frame the terminal's stream has yielded is a MessageReceived of a
\* stored message whose recipient is the terminal, and a refused stream has
\* yielded and queued nothing
StreamCarriesOwn ==
  /\ sub["t1"].pc = "err" => sub["t1"].yielded = <<>> /\ sub["t1"].buf = <<>>
  /\ \A k \in 1..Len(sub["t1"].yielded) :
       /\ sub["t1"].yielded[k].type = "message:received"
       /\ MsgExists(sub["t1"].yielded[k].id)
       /\ message[sub["t1"].yielded[k].id].recipientDeviceId = "t1"
  /\ \A i \in received["t1"] : message[i].recipientDeviceId = "t1"

\* C35: message.onMessage for the terminal is granted only to the terminal's
\* owner, any other caller is refused and is yielded nothing, and every frame
\* the stream yields, replayed or live, is a MessageReceived of a stored
\* message whose recipient is the terminal
C35_StreamCarriesOwnMessagesOnly ==
  [][/\ \A u \in Users :
          SubBegin("t1", u) /\ deviceUserId["t1"] # u => sub'["t1"].pc = "err"
     /\ StreamCarriesOwn']_vars

\* the terminal's stream read its backlog while a message to the phone, sent
\* after the terminal's last frame, was stored
C35_Witness ==
  /\ sub["t1"].pc \in {"replay", "live"}
  /\ sub["t1"].lastSentAt >= 0
  /\ \E i \in sub["t1"].base :
       /\ message[i].recipientDeviceId = "m1"
       /\ message[i].sentAt > sub["t1"].lastSentAt

\* C36: the persisted lastMessageId is only ever the id of a message that has
\* already been decrypted and saved in the local cache
C36_CursorNamesSavedMessage ==
  inbox.lastMessageId # NULL => HasRow(localRows, inbox.lastMessageId)

\* the unread rows of a cache
UnreadIn(rows) == {i \in 1..Len(rows) : ~rows[i].isSent /\ rows[i].status # "read"}

\* C37: in the local cache a read message stays read and the number of unread
\* rows grows only when a row with a new id is added
C37_StatusNeverRegresses ==
  [][/\ \A i \in 1..Len(localRows), j \in 1..Len(localRows') :
          localRows[i].id = localRows'[j].id /\ localRows[i].status = "read"
            => localRows'[j].status = "read"
     /\ Cardinality(UnreadIn(localRows')) > Cardinality(UnreadIn(localRows))
          => \E j \in 1..Len(localRows') : ~HasRow(localRows, localRows'[j].id)]_vars


\* C38: a mounted Inbox or Menu holds at most one open onMessage
\* subscription, none is left open after the unmount, and at most one
\* delivered receipt is sent for a message
C38_OneSubscriptionPerMount ==
  /\ Cardinality(OpenSubscriptions) <= 1
  /\ ~mount.mounted => OpenSubscriptions = {}
  /\ mount.receipts <= 1

\* C39: device initialization registers at most one device per installation,
\* however its runs overlap, and the stored device id names that device
C39_OneDevicePerInstallation ==
  /\ Cardinality(install.devices) <= 1
  /\ install.devices # {} /\ install.stored # NoDevice => install.stored \in install.devices

\* C40: on the scanner at most one handler is past the guard and at most one
\* completePairing is in flight, and between two presses of Try Again at most
\* one completePairing is started
C40_OneCompletePairingInFlight ==
  /\ scanner.handlers + Completing <= 1
  /\ scanner.started <= 1
  /\ scanner.handlers + Completing = 1 => scanner.isScanningRef /\ scanner.alert = "none"

\* a second completePairing is in flight, after Try Again, while the camera's
\* handler is still the one of the render before the first scan
C40_Witness ==
  /\ Completing = 1
  /\ scanner.passed >= 2
  /\ ~scanner.seenScanned /\ ~scanner.seenProcessing

====
